---- MODULE Spec2Model ----
(***************************************************************************)
(* SmartTestAI: the configuration resolver (AIConfig), the suite           *)
(* orchestrator (BaseRunner) and the element registry (BasePage).          *)
(*                                                                         *)
(* Python values are written as their repr: "True", "False", "None",       *)
(* "'chrome'", "0.9".  A dict is an object of the heap and a value that    *)
(* refers to it is its address "@n", so two configurations that share a    *)
(* section share the object, as they do after dict.copy().  Objects no     *)
(* root refers to are collected after every operation.                     *)
(***************************************************************************)
EXTENDS Integers, Sequences, FiniteSets, TLC

VARIABLES
    heap,            \* address -> dict (a function from keys to values)
    config_cache,    \* AIConfig._config_cache: suite name -> address
    current_suite,   \* AIConfig._current_suite, "None" when unset
    current_config,  \* AIConfig._current_config, "None" when unset
    runner_config,   \* BaseRunner.config of the last runner built, or "None"
    calls,           \* number of load_suite_config / BaseRunner() calls made
    lastOp,          \* the most recent call on AIConfig / BaseRunner(): arguments and outcome
    mode,            \* BaseRunner.mode
    report_formats,  \* BaseRunner.report_formats
    gen_enabled,     \* the runner's ai_features.test_generation flag
    ana_enabled,     \* the runner's ai_features.test_analysis flag
    pc,              \* position of BaseRunner.run
    result,          \* the result dict of run: phase -> what the phase returned
    invoked,         \* the phases run has invoked, in order
    raisedIn,        \* the phases inside which an unexpected error was raised
    returned,        \* what run handed to its caller
    reporting,       \* how the report collaborators behaved in this run
    ai_elements,     \* BasePage._ai_elements: name -> descriptor
    page,            \* what the browser shows: buttons and inputs
    self_healing,    \* AIConfig.is_feature_enabled("self_healing") of the current suite
    base_page,       \* the page object: its base_url, and the suite current when it was built
    healCalls,       \* number of _heal_element invocations
    lastFind,        \* the most recent find_element_ai call
    argv,            \* run_tests.py: the command line and what the examples directory holds
    mainPc,          \* run_tests.py: position of main
    exit_code,       \* run_tests.py: whether the process has exited, and its exit status
    test_files,      \* TestRunner.run_tests: the files to run
    parallel,        \* TestRunner.run_tests: whether to run them in a worker pool
    max_workers,     \* TestRunner.run_tests: size of the worker pool
    futures,         \* TestRunner.run_tests: file index -> state of its run_test_file call
    report_files,    \* the file system: directory -> contents of its .report.json
    all_results,     \* TestRunner.run_tests: the results collected so far
    test_results     \* TestRunner.test_results

configVars == <<heap, config_cache, current_suite, current_config, runner_config, calls, lastOp>>
runVars    == <<mode, report_formats, gen_enabled, ana_enabled, pc, result, invoked, raisedIn,
                returned, reporting>>
pageVars   == <<ai_elements, page, self_healing, base_page, healCalls, lastFind>>
mainVars   == <<argv, mainPc, exit_code>>
poolVars   == <<test_files, parallel, max_workers, futures, report_files, all_results, test_results>>
vars       == <<configVars, runVars, pageVars, mainVars, poolVars>>

(***************************************************************************)
(* Bounds of the model.                                                    *)
(***************************************************************************)
MaxCalls   == 2     \* calls of load_suite_config / BaseRunner() in one behaviour
MaxObjects == 30    \* capacity of the heap
MaxHeals   == 2     \* _heal_element invocations in one behaviour

(***************************************************************************)
(* The heap of dict objects.                                               *)
(***************************************************************************)
AddrTable == [i \in 1..MaxObjects |-> "@" \o ToString(i)]
Addr(i) == AddrTable[i]

EmptyDict == [k \in {} |-> "None"]
Range(seq) == {seq[i] : i \in 1..Len(seq)}

IsDict(h, v) == v \in DOMAIN h

NewAddr(h) ==
    Addr(CHOOSE i \in 1..(Cardinality(DOMAIN h) + 1) :
            /\ Addr(i) \notin DOMAIN h
            /\ \A j \in 1..(i - 1) : Addr(j) \in DOMAIN h)

\* a new dict object holding d; [h: the heap, a: its address]
Alloc(h, d) == LET a == NewAddr(h) IN [h |-> h @@ (a :> d), a |-> a]

\* obj[key] = value
Store(h, obj, key, value) == [h EXCEPT ![obj] = (key :> value) @@ h[obj]]

RECURSIVE Reach(_, _, _)
Reach(h, frontier, seen) ==
    IF frontier = {} THEN seen
    ELSE LET new == {v \in UNION {{h[a][k] : k \in DOMAIN h[a]} : a \in frontier} :
                        IsDict(h, v) /\ v \notin seen}
         IN  Reach(h, new, seen \cup new)

\* the heap without the objects that no root reaches
Collect(h, roots) ==
    LET live == Reach(h, roots \cap DOMAIN h, roots \cap DOMAIN h)
    IN [a \in live |-> h[a]]

RECURSIVE Flat(_, _, _)
\* the contents of a dict, at every nesting level: the set of <<path, value>>
Flat(h, obj, path) ==
    {<<path, "{}">>} \cup
    UNION { IF IsDict(h, h[obj][k])
            THEN Flat(h, h[obj][k], Append(path, k))
            ELSE {<<Append(path, k), h[obj][k]>>} : k \in DOMAIN h[obj] }

Contents(h, v) == IF IsDict(h, v) THEN Flat(h, v, <<>>) ELSE {<<<<>>, v>>}

(***************************************************************************)
(* AIConfig._defaults (ai_config.py 36-68), built once when the class is   *)
(* defined; a representative key of every kind is kept for each section.   *)
(***************************************************************************)
DefaultsAddr == Addr(1)

DefaultSections ==
    [ai_features    |-> [self_healing |-> "True", visual_testing |-> "True",
                         test_generation |-> "True", test_analysis |-> "True"],
     ai_settings    |-> [model |-> "'models/gemini-2.5-flash-lite'", visual_threshold |-> "0.9"],
     browser        |-> [default |-> "'chrome'", headless |-> "False"],
     test_execution |-> [parallel |-> "False", timeout |-> "300"]]

InitialHeap ==
    (Addr(1) :> [ai_features |-> Addr(2), ai_settings |-> Addr(3),
                 browser |-> Addr(4), test_execution |-> Addr(5)])
    @@ (Addr(2) :> DefaultSections.ai_features)
    @@ (Addr(3) :> DefaultSections.ai_settings)
    @@ (Addr(4) :> DefaultSections.browser)
    @@ (Addr(5) :> DefaultSections.test_execution)

(***************************************************************************)
(* Suite documents.  A document is the sequence of its top-level entries   *)
(* in file order; an entry is a scalar or a mapping (its <<key, value>>    *)
(* pairs in file order).                                                   *)
(***************************************************************************)
Scalar(k, v)  == [k |-> k, map |-> FALSE, v |-> v, m |-> <<>>]
Mapping(k, m) == [k |-> k, map |-> TRUE, v |-> "", m |-> m]

SuiteInfoOpts ==
    { <<>>,
      <<Mapping("suite_info", << <<"name", "'Shop'">>, <<"base_url", "'http://shop'">> >>)>>,
      <<Mapping("suite_info", << <<"name", "''">> >>)>> }

AiFeaturesOpts ==
    { <<>>,
      <<Mapping("ai_features", << <<"self_healing", "False">> >>)>>,
      <<Mapping("ai_features", << <<"self_healing", "True">>, <<"smart_wait", "False">> >>)>>,
      <<Mapping("ai_features", << <<"self_healing", "1">>, <<"test_analysis", "False">>,
                                  <<"visual_testing", "'yes'">> >>)>> }

OtherOpts ==
    { <<>>,
      <<Mapping("ai_settings", << <<"model", "'file-model'">> >>),
        Mapping("browser", << <<"default", "'firefox'">>, <<"headless", "False">> >>)>>,
      <<Scalar("ai_settings", "'fast'")>> }

\* every combination of the two required sections; the optional sections are
\* varied on the documents that name a suite
Docs == {a \o b : a \in SuiteInfoOpts, b \in AiFeaturesOpts}
        \cup {a \o b \o c : a \in {x \in SuiteInfoOpts : Len(x) > 0 /\ Len(x[1].m) > 1},
                             b \in {x \in AiFeaturesOpts : Len(x) > 0}, c \in OtherOpts}

\* what a config path holds: no file, a file that is not YAML, or a document
Files == {[exists |-> FALSE, yaml |-> FALSE, doc |-> <<>>],
          [exists |-> TRUE, yaml |-> FALSE, doc |-> <<>>]}
         \cup {[exists |-> TRUE, yaml |-> TRUE, doc |-> d] : d \in Docs}

SuiteNames == {"shop", "blog"}

HasKey(doc, k) == \E i \in 1..Len(doc) : doc[i].k = k
Entry(doc, k)  == doc[CHOOSE i \in 1..Len(doc) : doc[i].k = k]
PairKeys(m)    == {m[i][1] : i \in 1..Len(m)}
PairValue(m, k) == m[CHOOSE i \in 1..Len(m) : m[i][1] = k][2]

RECURSIVE LoadEntries(_, _, _, _)
LoadEntries(h, doc, i, top) ==
    IF i > Len(doc) THEN Alloc(h, top)
    ELSE IF doc[i].map
         THEN LET r == Alloc(h, [k \in PairKeys(doc[i].m) |-> PairValue(doc[i].m, k)])
              IN  LoadEntries(r.h, doc, i + 1, (doc[i].k :> r.a) @@ top)
         ELSE LoadEntries(h, doc, i + 1, (doc[i].k :> doc[i].v) @@ top)

\* yaml.safe_load(f) or {}: the document as dict objects
safe_load(h, doc) == LoadEntries(h, doc, 1, EmptyDict)

(***************************************************************************)
(* Python truthiness, isinstance(_, bool) and the `in` test on a str.      *)
(***************************************************************************)
Truthy(v) == v \notin {"None", "False", "''", "0", "[]", "{}"}
IsBool(v) == v \in {"True", "False"}
\* item in s, for a str s: the substring test
StrContains(s, item) == <<s, item>> \in {<<"'model-x'", "model">>}

(***************************************************************************)
(* AIConfig._validate_config (ai_config.py 164-190) on the parsed          *)
(* document.  The result is "ok" or the error raised: its kind and the     *)
(* names its message lists.  AttributeError/TypeError of a section that is *)
(* no mapping is raised inside the try of load_suite_config as well.       *)
(***************************************************************************)
required_sections == <<"suite_info", "ai_features">>
required_ai_settings == <<"model">>

NoError == [kind |-> "ok", items |-> <<>>]
Error(kind, items) == [kind |-> kind, items |-> items]

\* the first flag of the mapping, in file order, whose value is no bool
RECURSIVE FirstNonBool(_, _)
FirstNonBool(m, i) ==
    IF i > Len(m) THEN NoError
    ELSE IF ~IsBool(m[i][2]) THEN Error("non_boolean", <<m[i][1]>>)
         ELSE FirstNonBool(m, i + 1)

ValidateFeatures(doc) ==
    IF ~HasKey(doc, "ai_features") THEN NoError
    ELSE IF ~Entry(doc, "ai_features").map THEN Error("AttributeError", <<"items">>)
         ELSE FirstNonBool(Entry(doc, "ai_features").m, 1)

ValidateAiSettings(h, doc) ==
    LET inDefaults(s) == s \in DOMAIN h[h[DefaultsAddr]["ai_settings"]]
        inConfig(s) ==
            IF ~HasKey(doc, "ai_settings") THEN FALSE
            ELSE IF Entry(doc, "ai_settings").map
                 THEN s \in PairKeys(Entry(doc, "ai_settings").m)
                 ELSE StrContains(Entry(doc, "ai_settings").v, s)
        missing(s) == ~inConfig(s) /\ ~inDefaults(s)
        missing_ai_settings == SelectSeq(required_ai_settings, missing)
    IN  IF HasKey(doc, "ai_settings") /\ ~Entry(doc, "ai_settings").map
           /\ Entry(doc, "ai_settings").v = "None"
        THEN Error("TypeError", <<"ai_settings">>)
        ELSE IF missing_ai_settings # <<>> THEN Error("missing_ai_settings", missing_ai_settings)
             ELSE ValidateFeatures(doc)

ValidateSuiteInfo(h, doc) ==
    LET e == Entry(doc, "suite_info")
    IN  IF ~e.map THEN Error("AttributeError", <<"get">>)
        ELSE IF "name" \notin PairKeys(e.m) \/ ~Truthy(PairValue(e.m, "name"))
             THEN Error("missing_name", <<>>)
             ELSE ValidateAiSettings(h, doc)

validate_config(h, doc) ==
    LET absent(s) == ~HasKey(doc, s)
        missing_sections == SelectSeq(required_sections, absent)
    IN  IF missing_sections # <<>> THEN Error("missing_sections", missing_sections)
        ELSE ValidateSuiteInfo(h, doc)

(***************************************************************************)
(* AIConfig._deep_merge (ai_config.py 122-133).  The result is a new dict  *)
(* (base.copy() is shallow); a value of base that is not merged stays the  *)
(* object base holds.                                                      *)
(***************************************************************************)
RECURSIVE deep_merge(_, _, _)
RECURSIVE MergeKeys(_, _, _, _)
MergeKeys(h, res, override, keys) ==
    IF keys = {} THEN [h |-> h, a |-> res]
    ELSE LET key   == CHOOSE k \in keys : TRUE
             value == h[override][key]
         IN  IF key \in DOMAIN h[res] /\ IsDict(h, h[res][key]) /\ IsDict(h, value)
             THEN LET r == deep_merge(h, h[res][key], value)
                  IN  MergeKeys(Store(r.h, res, key, r.a), res, override, keys \ {key})
             ELSE MergeKeys(Store(h, res, key, value), res, override, keys \ {key})

\* a merge that extends a list by the override's list (not the code):
\* the reprs that are lists, and the repr of the list a + b
IsList(v) == v \in {"[]", "[2]", "[2, 2]"}
ListConcat(a, b) ==
    CASE a = "[]" -> b
      [] b = "[]" -> a
      [] a = "[2]" /\ b = "[2]" -> "[2, 2]"
      [] OTHER -> "[2, 2, 2]"
deep_merge_extends_lists(h, base, override) ==
    LET r == Alloc(h, h[base])
        both == {k \in DOMAIN h[base] \cap DOMAIN h[override] :
                    IsList(h[base][k]) /\ IsList(h[override][k])}
        m == MergeKeys(r.h, r.a, override, DOMAIN h[override] \ both)
    IN  [h |-> [m.h EXCEPT ![m.a] = [k \in DOMAIN m.h[m.a] |->
                                       IF k \in both
                                       THEN ListConcat(h[base][k], h[override][k])
                                       ELSE m.h[m.a][k]]],
         a |-> m.a]

\* a merge of the top level only, as dict.update does it (not the code)
deep_merge_top_level_only(h, base, override) ==
    LET r == Alloc(h, h[base])
    IN  [h |-> [r.h EXCEPT ![r.a] = [k \in DOMAIN h[base] \cup DOMAIN h[override] |->
                                       IF k \in DOMAIN h[override] THEN h[override][k]
                                       ELSE h[base][k]]],
         a |-> r.a]

deep_merge(h, base, override) ==
    LET r == Alloc(h, h[base])
    IN  MergeKeys(r.h, r.a, override, DOMAIN h[override])

(***************************************************************************)
(* Nested mappings to merge: a node is a scalar (the repr of a number or   *)
(* of a list) or a dict of nodes, at most two levels of dicts deep.        *)
(***************************************************************************)
ScalarNode(v) == [kind |-> "scalar", v |-> v, items |-> EmptyDict]
DictNode(f)   == [kind |-> "dict", v |-> "", items |-> f]
ScalarNodes   == {ScalarNode("1"), ScalarNode("[2]")}
InnerDicts ==
    {DictNode(f) : f \in UNION {[K -> ScalarNodes] : K \in SUBSET {"k", "m"}}}
OuterDicts ==
    {DictNode(f) :
        f \in UNION {[K -> ScalarNodes \cup InnerDicts] : K \in SUBSET {"a", "b"}}}

\* the node as objects of the heap; [h, a: its value]
RECURSIVE Build(_, _)
RECURSIVE BuildItems(_, _, _, _)
BuildItems(h, items, keys, d) ==
    IF keys = {} THEN Alloc(h, d)
    ELSE LET k == CHOOSE x \in keys : TRUE
             r == Build(h, items[k])
         IN  BuildItems(r.h, items, keys \ {k}, (k :> r.a) @@ d)
Build(h, node) ==
    IF node.kind = "scalar" THEN [h |-> h, a |-> node.v]
    ELSE BuildItems(h, node.items, DOMAIN node.items, EmptyDict)

\* _deep_merge(base, override), then _deep_merge of its result and override
DeepMergeOnce ==
    /\ lastOp.op = "merge" /\ lastOp.once = "None"
    /\ LET r == deep_merge(heap, lastOp.base, lastOp.override)
       IN  heap' = r.h /\ lastOp' = [lastOp EXCEPT !.once = r.a]
    /\ UNCHANGED <<mainVars, poolVars, config_cache, current_suite, current_config, runner_config, calls,
                   runVars, pageVars>>

DeepMergeAgain ==
    /\ lastOp.op = "merge" /\ lastOp.once # "None" /\ lastOp.twice = "None"
    /\ LET r == deep_merge(heap, lastOp.once, lastOp.override)
       IN  heap' = r.h /\ lastOp' = [lastOp EXCEPT !.twice = r.a]
    /\ UNCHANGED <<mainVars, poolVars, config_cache, current_suite, current_config, runner_config, calls,
                   runVars, pageVars>>

MergeNext == DeepMergeOnce \/ DeepMergeAgain

(***************************************************************************)
(* The environment: os.getenv of the six variables _apply_env_overrides    *)
(* reads; "" stands for a variable that is unset (or empty: both falsy).   *)
(***************************************************************************)
EnvNone == [GOOGLE_API_KEY |-> "", GOOGLE_AI_MODEL |-> "", VISUAL_THRESHOLD |-> "",
            AI_FEATURES_ENABLED |-> "", BROWSER |-> "", HEADLESS |-> ""]
EnvAll  == [GOOGLE_API_KEY |-> "key-1", GOOGLE_AI_MODEL |-> "env-model",
            VISUAL_THRESHOLD |-> "0.5", AI_FEATURES_ENABLED |-> "FALSE",
            BROWSER |-> "edge", HEADLESS |-> "True"]
EnvOn   == [EnvNone EXCEPT !.AI_FEATURES_ENABLED = "true", !.HEADLESS = "no"]
EnvBad  == [EnvNone EXCEPT !.GOOGLE_AI_MODEL = "env-model", !.VISUAL_THRESHOLD = "high"]
Envs    == {EnvNone, EnvAll, EnvOn, EnvBad}

\* str.lower()
Lower(s) == CASE s = "True"  -> "true"
              [] s = "TRUE"  -> "true"
              [] s = "FALSE" -> "false"
              [] OTHER       -> s
\* repr of a str, of a bool and of float(s); float raises ValueError on what is no number
Repr(s) == "'" \o s \o "'"
BoolRepr(b) == IF b THEN "True" ELSE "False"
IsNumber(s) == s \in {"0.5", "1"}
FloatRepr(s) == IF s = "1" THEN "1.0" ELSE s

(***************************************************************************)
(* AIConfig._apply_env_overrides (ai_config.py 135-161).  It writes into   *)
(* the sections config holds, in place.  A step is                         *)
(*     config.setdefault(section, {})[key] = value                         *)
(* and raises TypeError when the section is no dict.  The result is        *)
(* [h, error], error "" when none was raised.                              *)
(***************************************************************************)
SetItem(h, config, section, key, value) ==
    LET r == IF section \in DOMAIN h[config]
             THEN [h |-> h, a |-> h[config][section]]
             ELSE LET n == Alloc(h, EmptyDict)
                  IN  [h |-> Store(n.h, config, section, n.a), a |-> n.a]
    IN  IF IsDict(r.h, r.a)
        THEN [h |-> Store(r.h, r.a, key, value), error |-> ""]
        ELSE [h |-> r.h, error |-> "TypeError"]

RECURSIVE SetAll(_, _, _, _)
SetAll(h, obj, keys, value) ==
    IF keys = {} THEN h
    ELSE LET k == CHOOSE x \in keys : TRUE
         IN  SetAll(Store(h, obj, k, value), obj, keys \ {k}, value)

\* an override that reaches the flags of the defaults only (not the code)
SetFeatures_defaults_only(h, config, enabled) ==
    IF "ai_features" \notin DOMAIN h[config] THEN [h |-> h, error |-> ""]
    ELSE LET f == h[config]["ai_features"]
         IN  IF IsDict(h, f)
             THEN [h |-> SetAll(h, f, DOMAIN h[f] \cap DOMAIN DefaultSections.ai_features,
                                enabled),
                   error |-> ""]
             ELSE [h |-> h, error |-> "TypeError"]

\* for feature in config.get('ai_features', {}): config['ai_features'][feature] = enabled
SetFeatures(h, config, enabled) ==
    IF "ai_features" \notin DOMAIN h[config] THEN [h |-> h, error |-> ""]
    ELSE LET f == h[config]["ai_features"]
         IN  IF IsDict(h, f)
             THEN [h |-> SetAll(h, f, DOMAIN h[f], enabled), error |-> ""]
             ELSE [h |-> h, error |-> "TypeError"]

\* the six if-statements, in the order of the code
EnvSteps(env) ==
    << [on |-> env.GOOGLE_API_KEY # "", op |-> "set", section |-> "ai_settings",
        key |-> "api_key", value |-> Repr(env.GOOGLE_API_KEY)],
       [on |-> env.GOOGLE_AI_MODEL # "", op |-> "set", section |-> "ai_settings",
        key |-> "model", value |-> Repr(env.GOOGLE_AI_MODEL)],
       [on |-> env.VISUAL_THRESHOLD # "", op |-> "float", section |-> "ai_settings",
        key |-> "visual_threshold", value |-> env.VISUAL_THRESHOLD],
       [on |-> env.AI_FEATURES_ENABLED # "", op |-> "features", section |-> "ai_features",
        key |-> "", value |-> BoolRepr(Lower(env.AI_FEATURES_ENABLED) = "true")],
       [on |-> env.BROWSER # "", op |-> "set", section |-> "browser",
        key |-> "default", value |-> Repr(env.BROWSER)],
       [on |-> env.HEADLESS # "", op |-> "set", section |-> "browser",
        key |-> "headless", value |-> BoolRepr(Lower(env.HEADLESS) = "true")] >>

EnvStep(h, config, s) ==
    IF ~s.on THEN [h |-> h, error |-> ""]
    ELSE CASE s.op = "set"      -> SetItem(h, config, s.section, s.key, s.value)
           [] s.op = "features" -> SetFeatures(h, config, s.value)
           [] OTHER             ->
                IF IsNumber(s.value)
                THEN SetItem(h, config, s.section, s.key, FloatRepr(s.value))
                ELSE [h |-> h, error |-> "ValueError"]

\* the statements from the i-th on; an error raised ends the call
RECURSIVE EnvFrom(_, _, _, _)
EnvFrom(st, config, steps, i) ==
    IF i > Len(steps) \/ st.error # "" THEN st
    ELSE EnvFrom(EnvStep(st.h, config, steps[i]), config, steps, i + 1)

apply_env_overrides(h, config, env) ==
    EnvFrom([h |-> h, error |-> ""], config, EnvSteps(env), 1)

(***************************************************************************)
(* AIConfig.load_suite_config (ai_config.py 74-120).                       *)
(***************************************************************************)
Roots(cache, cur, runner) ==
    {DefaultsAddr, cur, runner} \cup {cache[s] : s \in DOMAIN cache}

\* what the call computes: [h, status, error, config]
LoadOutcome(h, file, env) ==
    IF ~file.exists
    THEN [h |-> h, status |-> "ConfigurationError", error |-> Error("not_found", <<>>),
          config |-> "None"]
    ELSE IF ~file.yaml
    THEN [h |-> h, status |-> "ConfigurationError", error |-> Error("yaml", <<>>),
          config |-> "None"]
    ELSE LET parsed == safe_load(h, file.doc)
             verdict == validate_config(parsed.h, file.doc)
         IN  IF verdict.kind # "ok"
             THEN [h |-> h, status |-> "ConfigurationError", error |-> verdict,
                   config |-> "None"]
             ELSE LET copy   == Alloc(parsed.h, parsed.h[DefaultsAddr])
                      merged == deep_merge(copy.h, copy.a, parsed.a)
                      env_st == apply_env_overrides(merged.h, merged.a, env)
                  IN  IF env_st.error # ""
                      THEN [h |-> env_st.h, status |-> env_st.error,
                            error |-> Error(env_st.error, <<>>), config |-> "None"]
                      ELSE [h |-> env_st.h, status |-> "ok", error |-> NoError,
                            config |-> merged.a]

load_suite_config(suite_name, file, env) ==
    /\ calls < MaxCalls
    /\ LET out == LoadOutcome(heap, file, env)
           cache == IF out.status = "ok" THEN (suite_name :> out.config) @@ config_cache
                    ELSE config_cache
           cur   == IF out.status = "ok" THEN out.config ELSE current_config
       IN  /\ heap' = Collect(out.h, Roots(cache, cur, runner_config))
           /\ config_cache' = cache
           /\ current_config' = cur
           /\ current_suite' = IF out.status = "ok" THEN suite_name ELSE current_suite
           /\ lastOp' = [op |-> "load", suite |-> suite_name, file |-> file, env |-> env,
                         status |-> out.status, error |-> out.error, config |-> out.config]
    /\ calls' = calls + 1
    /\ UNCHANGED <<mainVars, poolVars, runner_config, runVars, pageVars>>

(***************************************************************************)
(* BaseRunner.__init__ and its runtime overrides (base_runner.py 30-82).   *)
(* A dotted key path is the sequence of its segments (key_path.split('.')) *)
(* and the overrides are <<path, value>> pairs in the mapping's order.     *)
(***************************************************************************)
Overrides ==
    { <<>>,
      << <<(<<"browser", "headless">>), "True">> >>,
      << <<(<<"ai_features", "self_healing">>), "False">>,
         <<(<<"ai_features", "test_generation">>), "False">>,
         <<(<<"ai_features", "test_analysis">>), "False">> >>,
      << <<(<<"browser", "headless">>), "True">>, <<(<<"browser", "default">>), "'safari'">>,
         <<(<<"ai_settings", "model">>), "'cli-model'">>,
         <<(<<"ai_features", "self_healing">>), "True">>,
         <<(<<"reports", "theme", "dark">>), "True">> >>,
      << <<(<<"browser", "headless", "mode">>), "'new'">> >> }

RECURSIVE Walk(_, _, _, _, _)
\* the loop over keys[:-1] and the final assignment; [h, error]
Walk(h, current, keys, i, value) ==
    IF ~IsDict(h, current) THEN [h |-> h, error |-> "TypeError"]
    ELSE IF i = Len(keys) THEN [h |-> Store(h, current, keys[i], value), error |-> ""]
    ELSE IF keys[i] \notin DOMAIN h[current]
         THEN LET n == Alloc(h, EmptyDict)
              IN  Walk(Store(n.h, current, keys[i], n.a), n.a, keys, i + 1, value)
         ELSE Walk(h, h[current][keys[i]], keys, i + 1, value)

set_nested_config(h, config, key_path, value) == Walk(h, config, key_path, 1, value)

RECURSIVE ApplyFrom(_, _, _, _)
ApplyFrom(st, config, overrides, i) ==
    IF i > Len(overrides) \/ st.error # "" THEN st
    ELSE ApplyFrom(set_nested_config(st.h, config, overrides[i][1], overrides[i][2]),
                   config, overrides, i + 1)

apply_runtime_overrides(h, config, overrides) ==
    ApplyFrom([h |-> h, error |-> ""], config, overrides, 1)

\* BaseRunner(suite_name, config, runtime_overrides), config the cached
\* configuration of the suite (what load_suite_config returned)
BaseRunner(suite_name, overrides) ==
    /\ calls < MaxCalls
    /\ LET copy == Alloc(heap, heap[config_cache[suite_name]])
           st   == apply_runtime_overrides(copy.h, copy.a, overrides)
           new  == IF st.error = "" THEN copy.a ELSE runner_config
       IN  /\ heap' = Collect(st.h, Roots(config_cache, current_config, new))
           /\ runner_config' = new
           /\ lastOp' = [op |-> "runner", suite |-> suite_name, overrides |-> overrides,
                         status |-> IF st.error = "" THEN "ok" ELSE st.error,
                         config |-> IF st.error = "" THEN copy.a ELSE "None"]
    /\ calls' = calls + 1
    /\ UNCHANGED <<mainVars, poolVars, config_cache, current_suite, current_config, runVars, pageVars>>

(***************************************************************************)
(* AIConfig.get, _get_suite_config and is_feature_enabled                  *)
(* (ai_config.py 192-230).  The result is the value, or "raise".           *)
(***************************************************************************)
GetKeys ==
    { <<"ai_features", "self_healing">>, <<"browser", "headless">>,
      <<"ai_settings", "model">>, <<"ai_settings", "model", "name">>,
      <<"reports", "theme">>, <<"browser">> }

FeatureNames == {"self_healing", "smart_wait", "unknown"}

\* the configuration of the suite, or "raise" (ConfigurationError: not loaded)
get_suite_config(h, cache, suite) ==
    IF suite \notin DOMAIN cache THEN "raise"
    ELSE IF h[cache[suite]] = EmptyDict THEN "raise"
         ELSE cache[suite]

RECURSIVE Navigate(_, _, _, _, _)
Navigate(h, value, keys, i, default) ==
    IF i > Len(keys) THEN value
    ELSE IF IsDict(h, value) /\ keys[i] \in DOMAIN h[value]
         THEN Navigate(h, h[value][keys[i]], keys, i + 1, default)
         ELSE default

\* a get that raises on an absent segment instead of returning default (not the code)
Get_raises_on_missing_key(h, cache, cur, key, default, suite) ==
    LET config == get_suite_config(h, cache, IF suite = "None" THEN cur ELSE suite)
    IN  IF config = "raise" THEN "raise"
        ELSE IF Len(key) = 1 THEN Navigate(h, config, key, 1, default)
             ELSE IF key[1] \in DOMAIN h[config] /\ IsDict(h, h[config][key[1]])
                     /\ key[2] \in DOMAIN h[h[config][key[1]]]
                  THEN h[h[config][key[1]]][key[2]]
                  ELSE "raise"

Get(h, cache, cur, key, default, suite) ==
    LET config == get_suite_config(h, cache, IF suite = "None" THEN cur ELSE suite)
    IN  IF config = "raise" THEN "raise" ELSE Navigate(h, config, key, 1, default)

IsFeatureEnabled(h, cache, cur, feature_name, suite) ==
    Get(h, cache, cur, <<"ai_features", feature_name>>, "False",
        IF suite = "None" THEN cur ELSE suite)

get(key, default, suite) ==
    /\ calls < MaxCalls
    /\ lastOp' = [op |-> "get", key |-> key, default |-> default, suite |-> suite,
                  value |-> Get(heap, config_cache, current_suite, key, default, suite)]
    /\ calls' = calls + 1
    /\ UNCHANGED <<mainVars, poolVars, heap, config_cache, current_suite, current_config, runner_config,
                   runVars, pageVars>>

is_feature_enabled(feature_name, suite) ==
    /\ calls < MaxCalls
    /\ lastOp' = [op |-> "is_feature_enabled", feature |-> feature_name, suite |-> suite,
                  value |-> IsFeatureEnabled(heap, config_cache, current_suite,
                                             feature_name, suite)]
    /\ calls' = calls + 1
    /\ UNCHANGED <<mainVars, poolVars, heap, config_cache, current_suite, current_config, runner_config,
                   runVars, pageVars>>

(***************************************************************************)
(* BaseRunner.run and its four phases (base_runner.py 91-368).  What a     *)
(* phase returns is a record: success, error (str(e), "" when none),       *)
(* message, the reports it lists, and propagate: TRUE when the error       *)
(* leaves the phase instead of being returned.                             *)
(***************************************************************************)
Modes   == {"run", "generate", "full"}
Formats == {"html", "allure", "json"}

PhaseResult(success, error, message) ==
    [success |-> success, error |-> error, message |-> message,
     generated_reports |-> <<>>, main_report_path |-> "None", propagate |-> FALSE,
     delegated |-> FALSE, artifacts |-> {}]
\* the result of a phase that called its collaborator, and the files it wrote
Delegated(r, artifacts) == [r EXCEPT !.delegated = TRUE, !.artifacts = artifacts]
Propagated(error) == [PhaseResult(FALSE, error, "") EXCEPT !.propagate = TRUE]

\* _generate_tests: collaborator is how AITestGenerator and the file system
\* behave (the import of its module, which uses the standard library only,
\* precedes the test of the flag and succeeds)
Collaborators == {"ok", "raise"}
generate_tests(enabled, collaborator) ==
    IF ~enabled THEN PhaseResult(TRUE, "", "Test generation disabled")
    ELSE IF collaborator = "raise"
         THEN Delegated(PhaseResult(FALSE, "generator error", ""), {})
         ELSE Delegated(PhaseResult(TRUE, "", ""), {"tests/generated"})

\* _execute_tests without its except Exception clause (not the code)
execute_tests_uncaught(process) ==
    CASE process = "rc0"     -> PhaseResult(TRUE, "", "")
      [] process = "rc1"     -> PhaseResult(FALSE, "", "")
      [] process = "timeout" -> PhaseResult(FALSE, "Execution timeout", "")
      [] OTHER               -> Propagated("subprocess error")

\* _execute_tests: process is how the pytest subprocess ends
execute_tests(process) ==
    CASE process = "rc0"     -> PhaseResult(TRUE, "", "")
      [] process = "rc1"     -> PhaseResult(FALSE, "", "")
      [] process = "timeout" -> PhaseResult(FALSE, "Execution timeout", "")
      [] OTHER               -> PhaseResult(FALSE, "subprocess error", "")

\* _analyze_results: collaborator is how the import of AITestAnalyzer, the
\* analyzer and the write of ai_analysis.json behave.  The module
\* ai_test_analyzer annotates a method with List[str] and imports only Dict
\* and Any: where annotations are evaluated when the class body runs, the
\* import raises NameError and no analyzer exists; elsewhere it succeeds.
AnalysisCollaborators == {"ok", "raise", "import_error"}
analyze_results(enabled, collaborator) ==
    IF ~enabled THEN PhaseResult(TRUE, "", "Test analysis disabled")
    ELSE CASE collaborator = "import_error" ->
                  PhaseResult(FALSE, "name 'List' is not defined", "")
           [] collaborator = "raise" ->
                  Delegated(PhaseResult(FALSE, "analysis error", ""), {})
           [] OTHER ->
                  Delegated(PhaseResult(TRUE, "", ""), {"ai_analysis.json"})

\* how the things _generate_reports calls behave
ReportBehaviours ==
    [mkdir : {"ok", "raise"}, html : {"ok", "raise"}, allure_dir : BOOLEAN,
     allure : {"ok", "CalledProcessError", "FileNotFoundError", "raise"},
     json : {"ok", "raise"}]
NoReporting == [mkdir |-> "ok", html |-> "ok", allure_dir |-> TRUE, allure |-> "ok",
                json |-> "ok"]

\* _generate_reports
generate_reports(formats, b) ==
    LET failed == PhaseResult(FALSE, "report error", "")
        html   == IF "html" \in formats THEN <<"test_report.html">> ELSE <<>>
        allure == IF "allure" \in formats /\ b.allure_dir /\ b.allure = "ok"
                  THEN <<"allure_report">> ELSE <<>>
        json   == IF "json" \in formats THEN <<"test_results.json">> ELSE <<>>
    IN  IF b.mkdir = "raise" THEN failed
        ELSE IF "html" \in formats /\ b.html = "raise" THEN failed
        ELSE IF "allure" \in formats /\ b.allure_dir /\ b.allure = "raise" THEN failed
        ELSE IF "json" \in formats /\ b.json = "raise" THEN failed
        ELSE [PhaseResult(TRUE, "", "") EXCEPT
                 !.generated_reports = html \o allure \o json,
                 !.main_report_path = IF "html" \in formats THEN "test_report.html"
                                      ELSE "None"]

NotReturned == [done |-> FALSE, success |-> FALSE, error |-> "", entries |-> EmptyDict]
\* return result
Return(entries, success) ==
    [done |-> TRUE, success |-> success, error |-> "", entries |-> entries]
\* the except clause of run: a dict with suite, success False and the error
ReturnError(error) ==
    [done |-> TRUE, success |-> FALSE, error |-> error, entries |-> EmptyDict]

\* run without its two early returns (not the code)
AfterPhase_never_returns_early(phase, r, required, next) ==
    IF r.propagate
    THEN /\ pc' = "Done"
         /\ returned' = ReturnError(r.error)
         /\ UNCHANGED result
    ELSE /\ result' = (phase :> r) @@ result
         /\ IF next = "Done"
            THEN pc' = "Done" /\ returned' = Return(result', TRUE)
            ELSE pc' = next /\ UNCHANGED returned

\* run returning early after any failed phase (not the code)
AfterPhase_returns_on_any_failure(phase, r, required, next) ==
    IF r.propagate
    THEN /\ pc' = "Done"
         /\ returned' = ReturnError(r.error)
         /\ UNCHANGED result
    ELSE /\ result' = (phase :> r) @@ result
         /\ IF ~r.success
            THEN pc' = "Done" /\ returned' = Return(result', FALSE)
            ELSE IF next = "Done"
                 THEN pc' = "Done" /\ returned' = Return(result', TRUE)
                 ELSE pc' = next /\ UNCHANGED returned

\* the steps of run that follow a phase: store its result, and either return or go on
AfterPhase(phase, r, required, next) ==
    IF r.propagate
    THEN /\ pc' = "Done"
         /\ returned' = ReturnError(r.error)
         /\ UNCHANGED result
    ELSE /\ result' = (phase :> r) @@ result
         /\ IF required /\ ~r.success
            THEN pc' = "Done" /\ returned' = Return(result', FALSE)
            ELSE IF next = "Done"
                 THEN pc' = "Done" /\ returned' = Return(result', TRUE)
                 ELSE pc' = next /\ UNCHANGED returned

\* run going to the analysis phase first (not the code)
Start_begins_with_analysis ==
    /\ pc = "Idle"
    /\ pc' = "Analyzing"
    /\ UNCHANGED <<mainVars, poolVars, mode, report_formats, gen_enabled, ana_enabled, result,
                   invoked, raisedIn, returned, reporting, configVars, pageVars>>

Start ==
    /\ pc = "Idle"
    /\ IF mode \in {"generate", "full"} THEN pc' = "Generating" /\ UNCHANGED returned
       ELSE IF mode \in {"run", "full"} THEN pc' = "Executing" /\ UNCHANGED returned
            ELSE pc' = "Done" /\ returned' = Return(result, TRUE)
    /\ UNCHANGED <<mainVars, poolVars, mode, report_formats, gen_enabled, ana_enabled, result, invoked,
                   raisedIn, reporting, configVars, pageVars>>

GeneratePhase(collaborator) ==
    /\ pc = "Generating"
    /\ invoked' = Append(invoked, "generation")
    /\ raisedIn' = IF gen_enabled /\ collaborator = "raise"
                   THEN raisedIn \cup {"generation"} ELSE raisedIn
    /\ AfterPhase("generation", generate_tests(gen_enabled, collaborator), TRUE,
                  IF mode \in {"run", "full"} THEN "Executing" ELSE "Done")
    /\ UNCHANGED <<mainVars, poolVars, mode, report_formats, gen_enabled, ana_enabled, reporting,
                   configVars, pageVars>>

ExecutePhase(process) ==
    /\ pc = "Executing"
    /\ invoked' = Append(invoked, "execution")
    /\ raisedIn' = IF process = "raise" THEN raisedIn \cup {"execution"} ELSE raisedIn
    /\ AfterPhase("execution", execute_tests(process), TRUE, "Analyzing")
    /\ UNCHANGED <<mainVars, poolVars, mode, report_formats, gen_enabled, ana_enabled, reporting,
                   configVars, pageVars>>

\* an analysis phase whose failure ends the run (not the code)
AnalyzePhase_ends_run_on_failure(collaborator) ==
    /\ pc = "Analyzing"
    /\ invoked' = Append(invoked, "analysis")
    /\ raisedIn' = IF ana_enabled /\ collaborator # "ok"
                   THEN raisedIn \cup {"analysis"} ELSE raisedIn
    /\ AfterPhase("analysis", analyze_results(ana_enabled, collaborator), TRUE, "Reporting")
    /\ UNCHANGED <<mainVars, poolVars, mode, report_formats, gen_enabled, ana_enabled, reporting,
                   configVars, pageVars>>

AnalyzePhase(collaborator) ==
    /\ pc = "Analyzing"
    /\ invoked' = Append(invoked, "analysis")
    /\ raisedIn' = IF ana_enabled /\ collaborator # "ok"
                   THEN raisedIn \cup {"analysis"} ELSE raisedIn
    /\ AfterPhase("analysis", analyze_results(ana_enabled, collaborator), FALSE, "Reporting")
    /\ UNCHANGED <<mainVars, poolVars, mode, report_formats, gen_enabled, ana_enabled, reporting,
                   configVars, pageVars>>

ReportPhase(b) ==
    /\ pc = "Reporting"
    /\ invoked' = Append(invoked, "reporting")
    /\ reporting' = b
    /\ raisedIn' = IF ~generate_reports(report_formats, b).success
                   THEN raisedIn \cup {"reporting"} ELSE raisedIn
    /\ AfterPhase("reporting", generate_reports(report_formats, b), FALSE, "Done")
    /\ UNCHANGED <<mainVars, poolVars, mode, report_formats, gen_enabled, ana_enabled, configVars, pageVars>>

RunNext ==
    \/ Start
    \/ \E c \in Collaborators : GeneratePhase(c)
    \/ \E p \in {"rc0", "rc1", "timeout", "raise"} : ExecutePhase(p)
    \/ \E c \in AnalysisCollaborators : AnalyzePhase(c)
    \/ \E b \in ReportBehaviours : ReportPhase(b)

(***************************************************************************)
(* BasePage: the element registry and find_element_ai (base_page.py        *)
(* 46-138).  Descriptions, texts and placeholders are sequences of         *)
(* characters, so that lower(), split() and the `in` test are computed.    *)
(***************************************************************************)
UpperCase == <<"A", "B", "C", "D", "E", "F", "G", "H", "I", "J", "K", "L", "M",
               "N", "O", "P", "Q", "R", "S", "T", "U", "V", "W", "X", "Y", "Z">>
LowerCase == <<"a", "b", "c", "d", "e", "f", "g", "h", "i", "j", "k", "l", "m",
               "n", "o", "p", "q", "r", "s", "t", "u", "v", "w", "x", "y", "z">>
LowerChar(c) ==
    IF \E i \in 1..Len(UpperCase) : UpperCase[i] = c
    THEN LowerCase[CHOOSE i \in 1..Len(UpperCase) : UpperCase[i] = c]
    ELSE c
\* str.lower()
str_lower(s) == [i \in 1..Len(s) |-> LowerChar(s[i])]
\* needle in hay, for two str
Within(needle, hay) ==
    \E i \in 0..(Len(hay) - Len(needle)) : SubSeq(hay, i + 1, i + Len(needle)) = needle
\* str.split(): the words between runs of blanks
RECURSIVE SplitFrom(_, _, _)
SplitFrom(s, i, word) ==
    LET done == IF word = <<>> THEN <<>> ELSE <<word>>
    IN  IF i > Len(s) THEN done
        ELSE IF s[i] = " " THEN done \o SplitFrom(s, i + 1, <<>>)
             ELSE SplitFrom(s, i + 1, Append(word, s[i]))
split(s) == SplitFrom(s, 1, <<>>)

\* the texts of the model, character by character
LOGIN_TEXT == <<"L", "o", "g", "i", "n">>
CANCEL_LOGIN_TEXT == <<"C", "a", "n", "c", "e", "l", " ", "l", "o", "g", "i", "n">>
USER_NAME_TEXT == <<"U", "s", "e", "r", " ", "n", "a", "m", "e">>
CANCEL_TEXT == <<"C", "a", "n", "c", "e", "l">>
LOGIN_BUTTON == <<"L", "o", "g", "i", "n", " ", "b", "u", "t", "t", "o", "n">>
CANCEL_BUTTON == <<"C", "a", "n", "c", "e", "l", " ", "B", "u", "t", "t", "o", "n">>
NAME_FIELD == <<"U", "s", "e", "r", " ", "n", "a", "m", "e", " ", "f", "i", "e", "l", "d">>
BUTTON == <<"b", "u", "t", "t", "o", "n">>
INPUT == <<"i", "n", "p", "u", "t">>
FIELD == <<"f", "i", "e", "l", "d">>
SEARCH_FIELD == <<"s", "e", "a", "r", "c", "h", " ", "i", "n", "p", "u", "t", " ", "f", "i", "e", "l", "d">>
SEARCH_FIELD_BUTTON == <<"s", "e", "a", "r", "c", "h", " ", "f", "i", "e", "l", "d", " ",
                         "b", "u", "t", "t", "o", "n">>
SEARCH_PRODUCTS_TEXT == <<"S", "e", "a", "r", "c", "h", " ", "p", "r", "o", "d", "u", "c", "t", "s">>

Element(ref, tag, id, text, placeholder) ==
    [ref |-> ref, tag |-> tag, id |-> id, text |-> text, placeholder |-> placeholder]

\* the documents the driver can show, as the elements in document order
Pages ==
    [login |-> << Element("e1", "button", "login-btn", LOGIN_TEXT, <<>>),
                  Element("e2", "button", "cancel-btn", CANCEL_LOGIN_TEXT, <<>>),
                  Element("e3", "input", "user", <<>>, USER_NAME_TEXT) >>,
     moved |-> << Element("e4", "input", "q", <<>>, CANCEL_TEXT),
                  Element("e5", "button", "signin", LOGIN_TEXT, <<>>),
                  Element("e6", "button", "user", USER_NAME_TEXT, <<>>) >>,
     search |-> << Element("e7", "input", "q", <<>>, SEARCH_PRODUCTS_TEXT) >>,
     blank |-> << >>]
PageNames == DOMAIN Pages

NoLocator == <<>>
\* the (description, primary_locator) pairs each name is registered with
Registrations ==
    [login  |-> { <<LOGIN_BUTTON, <<"id", "login-btn">> >>,
                  <<CANCEL_BUTTON, <<"id", "login-btn">> >>,
                  <<LOGIN_BUTTON, <<"label", "Login">> >> },
     search |-> { <<NAME_FIELD, NoLocator>>, <<NAME_FIELD, <<"ID", "user">> >>,
                  <<SEARCH_FIELD, NoLocator>>,
                         <<SEARCH_FIELD_BUTTON, NoLocator>> }]
ElementNames == DOMAIN Registrations

\* getattr(By, strategy.upper()): the attribute the strategy queries, or
\* "AttributeError" when By has no such member
ByStrategy(strategy) ==
    CASE strategy \in {"id", "ID", "Id"}      -> "id"
      [] strategy \in {"tag_name", "TAG_NAME"} -> "tag"
      [] OTHER                                 -> "AttributeError"

\* driver.find_element(by, value): the first match, or "raise"
\* (NoSuchElementException, or the AttributeError of the strategy)
find_element(dom, strategy, value) ==
    LET by == ByStrategy(strategy)
        hits == {i \in 1..Len(dom) : by # "AttributeError" /\ dom[i][by] = value}
    IN  IF hits = {} THEN "raise"
        ELSE dom[CHOOSE i \in hits : \A j \in hits : i <= j].ref

\* the first element of the tag, in document order, whose text (attr) holds a
\* word of the description longer than two characters; "None" when there is none
FirstMatch(dom, tag, attr, description) ==
    LET words == {w \in Range(split(description)) : Len(w) > 2}
        hits == {i \in 1..Len(dom) :
                    /\ dom[i].tag = tag
                    /\ \E w \in words : Within(w, str_lower(dom[i][attr]))}
    IN  IF hits = {} THEN "None"
        ELSE dom[CHOOSE i \in hits : \A j \in hits : i <= j].ref

\* _heal_element
heal_element(dom, element_info) ==
    LET description == str_lower(element_info.description)
        button == IF Within(BUTTON, description)
                  THEN FirstMatch(dom, "button", "text", description) ELSE "None"
        input  == IF Within(INPUT, description) \/ Within(FIELD, description)
                  THEN FirstMatch(dom, "input", "placeholder", description) ELSE "None"
    IN  IF button # "None" THEN button ELSE input

\* find_element_ai trying the heuristic before the primary locator (not the code)
find_element_ai_heals_first(registry, dom, gate, element_name) ==
    IF element_name \notin DOMAIN registry
    THEN [value |-> "None", healed |-> FALSE, primary |-> "None"]
    ELSE LET element_info == registry[element_name]
             primary == IF element_info.primary_locator = NoLocator THEN "None"
                        ELSE find_element(dom, element_info.primary_locator[1],
                                          element_info.primary_locator[2])
             healedTo == heal_element(dom, element_info)
         IN  IF gate /\ healedTo # "None"
             THEN [value |-> healedTo, healed |-> TRUE, primary |-> primary]
             ELSE IF primary \notin {"None", "raise"}
                  THEN [value |-> primary, healed |-> FALSE, primary |-> primary]
                  ELSE [value |-> "None", healed |-> gate, primary |-> primary]

\* find_element_ai without the self_healing test (not the code)
find_element_ai_ungated(registry, dom, gate, element_name) ==
    IF element_name \notin DOMAIN registry
    THEN [value |-> "None", healed |-> FALSE, primary |-> "None"]
    ELSE LET element_info == registry[element_name]
             primary == IF element_info.primary_locator = NoLocator THEN "None"
                        ELSE find_element(dom, element_info.primary_locator[1],
                                          element_info.primary_locator[2])
         IN  IF primary \notin {"None", "raise"}
             THEN [value |-> primary, healed |-> FALSE, primary |-> primary]
             ELSE [value |-> heal_element(dom, element_info), healed |-> TRUE,
                   primary |-> primary]

\* find_element_ai: the element returned ("None" for None), whether
\* _heal_element was invoked, and what the primary query gave
FindElementAi(registry, dom, gate, element_name) ==
    IF element_name \notin DOMAIN registry
    THEN [value |-> "None", healed |-> FALSE, primary |-> "None"]
    ELSE LET element_info == registry[element_name]
             primary == IF element_info.primary_locator = NoLocator THEN "None"
                        ELSE find_element(dom, element_info.primary_locator[1],
                                          element_info.primary_locator[2])
         IN  IF primary \notin {"None", "raise"}
             THEN [value |-> primary, healed |-> FALSE, primary |-> primary]
             ELSE IF ~gate
                  THEN [value |-> "None", healed |-> FALSE, primary |-> primary]
                  ELSE [value |-> heal_element(dom, element_info), healed |-> TRUE,
                        primary |-> primary]

\* stands for the descriptor of a name the registry does not hold
Unregistered == [description |-> <<>>, primary_locator |-> NoLocator,
                 healing_history |-> <<"unregistered">>]

\* a registration that keeps the descriptor a name already has (not the code)
register_ai_element_keeps_first(name, description, primary_locator) ==
    /\ ai_elements' = ai_elements @@ (name :> [description |-> description,
                                               primary_locator |-> primary_locator,
                                               healing_history |-> <<>>])
    /\ UNCHANGED <<mainVars, poolVars, page, self_healing, base_page, healCalls, lastFind, configVars, runVars>>

register_ai_element(name, description, primary_locator) ==
    /\ ai_elements' = (name :> [description |-> description,
                                primary_locator |-> primary_locator,
                                healing_history |-> <<>>]) @@ ai_elements
    /\ UNCHANGED <<mainVars, poolVars, page, self_healing, base_page, healCalls, lastFind, configVars, runVars>>

\* what a public method leaves behind: the call, what its one resolution
\* gave and what the method returned (an element, "None", "True" or "False")
Call(element_name, out, op, act, ret) ==
    /\ lastFind' = [name |-> element_name,
                    info |-> IF element_name \in DOMAIN ai_elements
                             THEN ai_elements[element_name] ELSE Unregistered,
                    page |-> page, gate |-> self_healing, value |-> out.value,
                    healed |-> out.healed, primary |-> out.primary,
                    op |-> op, act |-> IF out.value = "None" THEN "unused" ELSE act,
                    returned |-> ret]
    /\ healCalls' = IF out.healed THEN healCalls + 1 ELSE healCalls

find_element_ai(element_name) ==
    /\ healCalls < MaxHeals
    /\ LET out == FindElementAi(ai_elements, Pages[page], self_healing, element_name)
       IN  Call(element_name, out, "find", "unused", out.value)
    /\ UNCHANGED <<mainVars, poolVars, ai_elements, page, self_healing, base_page, configVars, runVars>>

click_ai_element_uncaught(found, act) ==
    IF found = "None" THEN "False"
    ELSE IF act = "raise" THEN "raise" ELSE "True"

\* click_ai_element after its find_element_ai: act is how element.click() ends
ClickAiElement(found, act) ==
    IF found = "None" THEN "False"
    ELSE IF act = "raise" THEN "False" ELSE "True"

\* type_ai_element after its find_element_ai: act is how element.clear() and
\* element.send_keys(text) end
TypeAiElement(found, act) ==
    IF found = "None" THEN "False"
    ELSE IF act \in {"clear_raises", "send_keys_raises"} THEN "False" ELSE "True"

\* is_element_visible_ai after its find_element_ai: act is what
\* element.is_displayed() gives
IsElementVisibleAi(found, act) ==
    IF found = "None" THEN "False"
    ELSE IF act = "raise" THEN "False" ELSE act

click_ai_element(element_name, act) ==
    /\ healCalls < MaxHeals
    /\ LET out == FindElementAi(ai_elements, Pages[page], self_healing, element_name)
       IN  Call(element_name, out, "click", act, ClickAiElement(out.value, act))
    /\ UNCHANGED <<mainVars, poolVars, ai_elements, page, self_healing, base_page, configVars, runVars>>

type_ai_element(element_name, act) ==
    /\ healCalls < MaxHeals
    /\ LET out == FindElementAi(ai_elements, Pages[page], self_healing, element_name)
       IN  Call(element_name, out, "type", act, TypeAiElement(out.value, act))
    /\ UNCHANGED <<mainVars, poolVars, ai_elements, page, self_healing, base_page, configVars, runVars>>

is_element_visible_ai(element_name, act) ==
    /\ healCalls < MaxHeals
    /\ LET out == FindElementAi(ai_elements, Pages[page], self_healing, element_name)
       IN  Call(element_name, out, "visible", act, IsElementVisibleAi(out.value, act))
    /\ UNCHANGED <<mainVars, poolVars, ai_elements, page, self_healing, base_page, configVars, runVars>>

\* BasePage.open: driver.get(url) shows another document
open(p) ==
    /\ page' = p
    /\ UNCHANGED <<mainVars, poolVars, ai_elements, self_healing, base_page, healCalls, lastFind, configVars, runVars>>

PageNext ==
    \/ \E n \in ElementNames : \E r \in Registrations[n] : register_ai_element(n, r[1], r[2])
    \/ \E n \in ElementNames : find_element_ai(n)
    \/ \E n \in ElementNames, a \in {"ok", "raise"} : click_ai_element(n, a)
    \/ \E n \in ElementNames, a \in {"ok", "clear_raises", "send_keys_raises"} :
          type_ai_element(n, a)
    \/ \E n \in ElementNames, a \in {"True", "False", "raise"} : is_element_visible_ai(n, a)
    \/ \E p \in PageNames : open(p)

(***************************************************************************)
(* Initial states and specifications.                                      *)
(***************************************************************************)
(***************************************************************************)
(* run_tests.py: the command-line entry point.  The process exits with     *)
(* what main returns (sys.exit(main())), with 1 when main ends by an       *)
(* uncaught exception, and with the status argparse chooses when           *)
(* parse_args itself ends the process.                                     *)
(***************************************************************************)
\* what parse_args makes of the command line: a namespace, or the process
\* ends inside the parser (an option value outside its choices, a
\* non-integer --workers, an unknown option: status 2; --help: status 0)
ParseOutcomes == {"namespace", "error", "help"}
SuiteArgs == {"None", "awesomeqa", "nosuch"}
ArgFormats == {{"html"}, {"allure"}, {"html", "json"}}
CommandLines ==
    [parse : ParseOutcomes, list_suites : BOOLEAN, suite : SuiteArgs, mode : Modes,
     report_formats : ArgFormats, disable_ai : BOOLEAN]

\* examples/<suite>/ holds config.yaml, pages and tests
validate_suite(suite_name) == suite_name = "awesomeqa"

\* the process ends with this status
StillRunning == [exited |-> FALSE, status |-> 0]
Exit(code, at) ==
    /\ exit_code' = [exited |-> TRUE, status |-> code]
    /\ mainPc' = at

parse_arguments ==
    /\ mainPc = "start"
    /\ CASE argv.parse = "error" -> Exit(2, "parser")
         [] argv.parse = "help"  -> Exit(0, "parser")
         [] OTHER -> mainPc' = "parsed" /\ UNCHANGED exit_code
    /\ UNCHANGED <<argv, configVars, runVars, pageVars, poolVars>>

\* if args.list_suites: print them; return 0
ListSuites ==
    /\ mainPc = "parsed" /\ argv.list_suites
    /\ Exit(0, "listed")
    /\ UNCHANGED <<argv, configVars, runVars, pageVars, poolVars>>

\* no --suite: return 1.  A suite that fails validate_suite: return 1, or a
\* TypeError from joining the discovered suites (dicts) leaves main: status 1
ValidateSuite ==
    /\ mainPc = "parsed" /\ ~argv.list_suites
    /\ IF argv.suite = "None" THEN Exit(1, "no suite")
       ELSE IF ~validate_suite(argv.suite) THEN Exit(1, "invalid suite")
       ELSE mainPc' = "loading" /\ UNCHANGED exit_code
    /\ UNCHANGED <<argv, configVars, runVars, pageVars, poolVars>>

\* AIConfig.load_suite_config(args.suite) returns a configuration or raises
LoadSuite(outcome) ==
    /\ mainPc = "loading"
    /\ IF outcome = "raises" THEN Exit(1, "load failed")
       ELSE mainPc' = "constructing" /\ UNCHANGED exit_code
    /\ UNCHANGED <<argv, configVars, runVars, pageVars, poolVars>>

\* BaseRunner(args.suite, config, runtime_overrides) and runner.set_options:
\* the flags are the configuration's, or False under --disable-ai
CreateRunner(outcome, generation, analysis) ==
    /\ mainPc = "constructing"
    /\ IF outcome = "raises"
       THEN /\ Exit(1, "runner failed")
            /\ UNCHANGED runVars
       ELSE /\ mainPc' = "running" /\ UNCHANGED exit_code
            /\ mode' = argv.mode
            /\ report_formats' = argv.report_formats
            /\ gen_enabled' = (generation /\ ~argv.disable_ai)
            /\ ana_enabled' = (analysis /\ ~argv.disable_ai)
            /\ pc' = "Idle"
            /\ UNCHANGED <<result, invoked, raisedIn, returned, reporting>>
    /\ UNCHANGED <<argv, configVars, pageVars, poolVars>>

\* result = runner.run() has returned: 0 if result.get("success", False), else 1
MainReturn ==
    /\ mainPc = "running" /\ returned.done
    /\ Exit(IF returned.success THEN 0 ELSE 1, "returned")
    /\ UNCHANGED <<argv, configVars, runVars, pageVars, poolVars>>

\* KeyboardInterrupt inside the try block of main: no except clause of the
\* configuration or of the runner catches it (they name Exception); return 130
Interrupt ==
    /\ mainPc \in {"loading", "constructing", "running"}
    /\ Exit(130, "interrupted")
    /\ pc' = IF pc = "NoRunner" THEN pc ELSE "Interrupted"
    /\ UNCHANGED <<argv, configVars, mode, report_formats, gen_enabled, ana_enabled, result,
                   invoked, raisedIn, returned, reporting, pageVars, poolVars>>

MainNext ==
    \/ parse_arguments
    \/ ListSuites
    \/ ValidateSuite
    \/ \E o \in {"config", "raises"} : LoadSuite(o)
    \/ \E o \in {"runner", "raises"}, g \in BOOLEAN, a \in BOOLEAN : CreateRunner(o, g, a)
    \/ Start
    \/ \E c \in Collaborators : GeneratePhase(c)
    \/ \E p \in {"rc0", "rc1", "timeout", "raise"} : ExecutePhase(p)
    \/ \E c \in AnalysisCollaborators : AnalyzePhase(c)
    \/ \E b \in ReportBehaviours : ReportPhase(b)
    \/ MainReturn
    \/ Interrupt

(***************************************************************************)
(* src/runner.py: TestRunner.run_tests and run_test_file.  Each file is    *)
(* run by one pytest process; run_test_file then reads the JSON report     *)
(* from .report.json in the directory of the test file.                    *)
(***************************************************************************)
TestFile(name, dir, outcomes) == [name |-> name, dir |-> dir, outcomes |-> outcomes]
TEST_A == TestFile("tests/test_a.py", "tests", <<"passed", "failed">>)
TEST_B == TestFile("tests/test_b.py", "tests", <<"skipped", "error">>)
TEST_C == TestFile("api/test_c.py", "api", <<"passed">>)
Directories == {"tests", "api"}
FileLists == {<<TEST_A>>, <<TEST_A, TEST_B>>, <<TEST_A, TEST_C>>, <<TEST_C, TEST_A, TEST_B>>}
\* execution.max_workers of the configuration
WorkerCounts == {1, 2, 4}

\* os.path.join(os.path.dirname(test_file), ".report.json"), and its contents:
\* the report of the pytest process that wrote it last
report_file(file) == file.dir
NoReport == [exists |-> FALSE, tests |-> <<>>]
Report(file) ==
    [exists |-> TRUE,
     tests  |-> [k \in 1..Len(file.outcomes) |->
                    [nodeid |-> file.name, outcome |-> file.outcomes[k]]]]

\* "pass" if outcome == "passed" else "fail" if outcome == "failed" else "skip"
Status(outcome) ==
    IF outcome = "passed" THEN "pass" ELSE IF outcome = "failed" THEN "fail" ELSE "skip"

\* the results dict of run_test_file: the file and the entries parsed from the report
Results(file, report) ==
    [file  |-> file.name,
     tests |-> IF report.exists
               THEN [k \in 1..Len(report.tests) |->
                        [details |-> report.tests[k].nodeid,
                         status  |-> Status(report.tests[k].outcome)]]
               ELSE <<>>]
NoResults == [file |-> "", tests |-> <<>>]

\* a call of run_test_file: pending, running (the process is spawned),
\* exited (communicate has returned), done (it returned results) or error
\* (it raised); collected once run_tests has taken its outcome
NotStarted == [state |-> "pending", result |-> NoResults, collected |-> FALSE]

\* run_test_file up to process.communicate(): Popen spawns pytest or raises.
\* The pool runs at most max_workers calls at a time, in submission order;
\* the sequential loop starts a file when the one before it is finished.
Spawn(i, popen) ==
    /\ i \in DOMAIN futures
    /\ futures[i].state = "pending"
    /\ \A j \in 1..(i - 1) : futures[j].state # "pending"
    /\ IF parallel /\ Len(test_files) > 1
       THEN Cardinality({j \in DOMAIN futures : futures[j].state \in {"running", "exited"}})
                < max_workers
       ELSE \A j \in 1..(i - 1) : futures[j].collected
    /\ futures' = [futures EXCEPT ![i].state = IF popen = "raises" THEN "error" ELSE "running"]
    /\ UNCHANGED <<test_files, parallel, max_workers, report_files, all_results, test_results,
                   configVars, runVars, pageVars, mainVars>>

\* the pytest process of file i ends; with --json-report it has written its report
ProcessExit(i, wrote) ==
    /\ i \in DOMAIN futures
    /\ futures[i].state = "running"
    /\ futures' = [futures EXCEPT ![i].state = "exited"]
    /\ report_files' = IF wrote
                       THEN [report_files EXCEPT ![report_file(test_files[i])] =
                                                     Report(test_files[i])]
                       ELSE report_files
    /\ UNCHANGED <<test_files, parallel, max_workers, all_results, test_results,
                   configVars, runVars, pageVars, mainVars>>

\* the rest of run_test_file: read the report file if it exists, return results
ParseReport(i) ==
    /\ i \in DOMAIN futures
    /\ futures[i].state = "exited"
    /\ futures' = [futures EXCEPT
                     ![i].state = "done",
                     ![i].result = Results(test_files[i],
                                           report_files[report_file(test_files[i])])]
    /\ UNCHANGED <<test_files, parallel, max_workers, report_files, all_results, test_results,
                   configVars, runVars, pageVars, mainVars>>

\* an error in a worker empties what was collected (not the code)
collect_abandons_on_error(all, future) ==
    IF future.state = "done" THEN Append(all, future.result) ELSE <<>>

\* try: all_results.append(future.result()) except Exception: log
Collected(all, future) ==
    IF future.state = "done" THEN Append(all, future.result) ELSE all

\* one turn of the loop over as_completed(future_to_file), or of the sequential loop
CollectResult(i) ==
    /\ i \in DOMAIN futures
    /\ futures[i].state \in {"done", "error"}
    /\ ~futures[i].collected
    /\ all_results' = Collected(all_results, futures[i])
    /\ futures' = [futures EXCEPT ![i].collected = TRUE]
    /\ UNCHANGED <<test_files, parallel, max_workers, report_files, test_results,
                   configVars, runVars, pageVars, mainVars>>

\* the counting loop over all_results
RECURSIVE CountStatus(_, _, _)
CountStatus(tests, status, k) ==
    IF k > Len(tests) THEN 0
    ELSE (IF tests[k].status = status THEN 1 ELSE 0) + CountStatus(tests, status, k + 1)
RECURSIVE AllTests(_, _)
AllTests(results, k) ==
    IF k > Len(results) THEN <<>> ELSE results[k].tests \o AllTests(results, k + 1)

NoSummary ==
    [run_mode |-> "None", total |-> 0, passed |-> 0, failed |-> 0, skipped |-> 0,
     files_run |-> 0, tests |-> <<>>]
Summary(results, mode_) ==
    LET tests   == AllTests(results, 1)
        passed  == CountStatus(tests, "pass", 1)
        failed  == CountStatus(tests, "fail", 1)
        skipped == CountStatus(tests, "skip", 1)
    IN  [run_mode |-> mode_, total |-> passed + failed + skipped, passed |-> passed,
         failed |-> failed, skipped |-> skipped, files_run |-> Len(results), tests |-> tests]

\* the end of run_tests: every future has been taken; summarise
Summarise ==
    /\ test_results.run_mode = "None"
    /\ \A i \in DOMAIN futures : futures[i].collected
    /\ test_results' = Summary(all_results, IF parallel THEN "parallel" ELSE "sequential")
    /\ UNCHANGED <<test_files, parallel, max_workers, futures, report_files, all_results,
                   configVars, runVars, pageVars, mainVars>>

PoolNext ==
    \/ \E i \in 1..3, popen \in {"spawned", "raises"} : Spawn(i, popen)
    \/ \E i \in 1..3, wrote \in BOOLEAN : ProcessExit(i, wrote)
    \/ \E i \in 1..3 : ParseReport(i)
    \/ \E i \in 1..3 : CollectResult(i)
    \/ Summarise

NoOp == [op |-> "none"]

ConfigInit ==
    /\ heap = InitialHeap
    /\ config_cache = EmptyDict
    /\ current_suite = "None"
    /\ current_config = "None"
    /\ runner_config = "None"
    /\ calls = 0
    /\ lastOp = NoOp

RunIdle ==
    /\ mode = "run"
    /\ report_formats = {"html"}
    /\ gen_enabled = TRUE
    /\ ana_enabled = TRUE
    /\ pc = "Idle"
    /\ result = EmptyDict
    /\ invoked = <<>>
    /\ raisedIn = {}
    /\ returned = NotReturned
    /\ reporting = NoReporting

NoFind == [name |-> "", info |-> Unregistered, page |-> "blank", gate |-> TRUE,
           value |-> "None", healed |-> FALSE, primary |-> "None",
           op |-> "none", act |-> "unused", returned |-> "None"]

\* no page object yet, and a page object built while some suite was current
NoPage    == [constructed |-> FALSE, base_url |-> "None", suite |-> "None"]
BuiltPage == [constructed |-> TRUE, base_url |-> "''", suite |-> "shop"]

PageIdle ==
    /\ ai_elements = EmptyDict
    /\ page = "blank"
    /\ self_healing = TRUE
    /\ base_page = NoPage
    /\ healCalls = 0
    /\ lastFind = NoFind

MainIdle ==
    /\ argv = [parse |-> "namespace", list_suites |-> FALSE, suite |-> "None", mode |-> "run",
               report_formats |-> {"html"}, disable_ai |-> FALSE]
    /\ mainPc = "start"
    /\ exit_code = StillRunning

\* the process has just started: any command line, and no runner yet
MainInit ==
    /\ argv \in CommandLines
    /\ mainPc = "start"
    /\ exit_code = StillRunning

NoRunner ==
    /\ mode = "run"
    /\ report_formats = {"html"}
    /\ gen_enabled = TRUE
    /\ ana_enabled = TRUE
    /\ pc = "NoRunner"
    /\ result = EmptyDict
    /\ invoked = <<>>
    /\ raisedIn = {}
    /\ returned = NotReturned
    /\ reporting = NoReporting

PoolIdle ==
    /\ test_files = <<>>
    /\ parallel = FALSE
    /\ max_workers = 1
    /\ futures = <<>>
    /\ report_files = [d \in Directories |-> NoReport]
    /\ all_results = <<>>
    /\ test_results = NoSummary

\* run_tests has been called with a list of files; no .report.json exists yet
PoolInit ==
    /\ test_files \in FileLists
    /\ parallel \in BOOLEAN
    /\ max_workers \in IF parallel THEN WorkerCounts ELSE {1}
    /\ futures = [i \in 1..Len(test_files) |-> NotStarted]
    /\ report_files = [d \in Directories |-> NoReport]
    /\ all_results = <<>>
    /\ test_results = NoSummary

\* a page object just constructed: an empty registry; the driver shows some
\* document and the self_healing flag of the current suite is either way
PageInit ==
    /\ ai_elements = EmptyDict
    /\ page \in PageNames
    /\ self_healing \in BOOLEAN
    /\ base_page = BuiltPage
    /\ healCalls = 0
    /\ lastFind = NoFind

\* a document that passes validation is loaded under every suite name and
\* environment; a file that fails before either matters, under one of each
ValidFiles ==
    {f \in Files : f.exists /\ f.yaml /\ validate_config(InitialHeap, f.doc).kind = "ok"}

ConfigNext ==
    \/ \E s \in SuiteNames, f \in Files, e \in Envs :
          /\ f \in ValidFiles \/ (s = "shop" /\ e = EnvNone)
          /\ load_suite_config(s, f, e)
    \/ \E s \in DOMAIN config_cache, o \in Overrides : BaseRunner(s, o)
    \/ \E k \in GetKeys, d \in {"None", "'dflt'"}, s \in SuiteNames \cup {"None"} : get(k, d, s)
    \/ \E f \in FeatureNames, s \in SuiteNames \cup {"None"} : is_feature_enabled(f, s)

\* a runner after set_options: any mode, report formats and feature flags
RunInit ==
    /\ mode \in Modes
    /\ report_formats \in SUBSET Formats
    /\ gen_enabled \in BOOLEAN
    /\ ana_enabled \in BOOLEAN
    /\ pc = "Idle"
    /\ result = EmptyDict
    /\ invoked = <<>>
    /\ raisedIn = {}
    /\ returned = NotReturned
    /\ reporting = NoReporting

InitRun == ConfigInit /\ RunInit /\ PageIdle /\ MainIdle /\ PoolIdle
SpecRun == InitRun /\ [][RunNext]_vars
\* run is one thread of sequential code: while a statement is left, it is executed
SpecRunFair == InitRun /\ [][RunNext]_vars /\ WF_vars(RunNext)

InitPage == ConfigInit /\ RunIdle /\ PageInit /\ MainIdle /\ PoolIdle
SpecPage == InitPage /\ [][PageNext]_vars

\* a base and an override document, as objects of an otherwise empty heap
MergeInit ==
    \E D \in OuterDicts, A \in OuterDicts :
        LET d == Build(EmptyDict, D)
            a == Build(d.h, A)
        IN  /\ heap = a.h
            /\ lastOp = [op |-> "merge", base |-> d.a, override |-> a.a,
                         once |-> "None", twice |-> "None"]
            /\ config_cache = EmptyDict
            /\ current_suite = "None"
            /\ current_config = "None"
            /\ runner_config = "None"
            /\ calls = 0
InitMerge == MergeInit /\ RunIdle /\ PageIdle /\ MainIdle /\ PoolIdle
SpecMerge == InitMerge /\ [][MergeNext]_vars

InitMain == ConfigInit /\ NoRunner /\ PageIdle /\ MainInit /\ PoolIdle

InitPool == ConfigInit /\ RunIdle /\ PageIdle /\ MainIdle /\ PoolInit
SpecPool == InitPool /\ [][PoolNext]_vars
SpecMain == InitMain /\ [][MainNext]_vars

(***************************************************************************)
(* A page object over the process-wide AIConfig: BasePage.__init__         *)
(* (base_page.py 24-44) reads suite_info.base_url of the current suite,    *)
(* and find_element_ai (62-92) asks is_feature_enabled("self_healing")     *)
(* when the primary locator is absent or its query fails.                  *)
(***************************************************************************)

\* the documents and environments the suites are loaded from here: a suite
\* file that turns self_healing off, one that turns it on, and no file
GateFiles ==
    {f \in Files :
        \/ ~f.exists
        \/ /\ f.exists /\ f.yaml /\ validate_config(InitialHeap, f.doc).kind = "ok"
           /\ Len(f.doc) = 2
           /\ PairKeys(Entry(f.doc, "ai_features").m) \subseteq {"self_healing", "smart_wait"}}
GateEnvs == {EnvNone, EnvOn}

\* a gate that asks for the flag of the suite the page was built under (not the code)
SelfHealingFlag_of_construction_suite ==
    IsFeatureEnabled(heap, config_cache, base_page.suite, "self_healing", base_page.suite)

\* self.config.is_feature_enabled("self_healing"): the flag, or "raise"
SelfHealingFlag ==
    IsFeatureEnabled(heap, config_cache, current_suite, "self_healing", "None")

BasePage ==
    /\ ~base_page.constructed
    /\ LET url == Get(heap, config_cache, current_suite, <<"suite_info", "base_url">>,
                      "''", "None")
       IN  base_page' = IF url = "raise" THEN base_page
                        ELSE [constructed |-> TRUE, base_url |-> url, suite |-> current_suite]
    /\ lastFind' = [NoFind EXCEPT !.op = "init",
                                  !.returned = IF base_page'.constructed THEN "None" ELSE "raise"]
    /\ UNCHANGED <<mainVars, poolVars, ai_elements, page, self_healing, healCalls,
                   configVars, runVars>>

\* find_element_ai on the page object, the flag looked up when the call gets there
ResolveOnPage(element_name) ==
    /\ base_page.constructed
    /\ healCalls < MaxHeals
    /\ LET asked == FindElementAi(ai_elements, Pages[page], FALSE, element_name)
           looks == element_name \in DOMAIN ai_elements /\ asked.primary \in {"None", "raise"}
           flag  == IF looks THEN SelfHealingFlag ELSE "not asked"
           gate  == IF looks /\ flag # "raise" THEN Truthy(flag) ELSE self_healing
           out   == FindElementAi(ai_elements, Pages[page], gate, element_name)
       IN  IF flag = "raise"
           THEN /\ lastFind' = [NoFind EXCEPT !.name = element_name, !.page = page,
                                              !.info = ai_elements[element_name],
                                              !.op = "find", !.returned = "raise"]
                /\ UNCHANGED <<self_healing, healCalls>>
           ELSE /\ self_healing' = gate
                /\ lastFind' = [name |-> element_name,
                                info |-> IF looks THEN ai_elements[element_name]
                                         ELSE IF element_name \in DOMAIN ai_elements
                                              THEN ai_elements[element_name] ELSE Unregistered,
                                page |-> page, gate |-> gate, value |-> out.value,
                                healed |-> out.healed, primary |-> out.primary,
                                op |-> "find", act |-> "unused", returned |-> out.value]
                /\ healCalls' = IF out.healed THEN healCalls + 1 ELSE healCalls
    /\ UNCHANGED <<mainVars, poolVars, ai_elements, page, base_page, configVars, runVars>>

GateNext ==
    \/ \E s \in SuiteNames, f \in GateFiles, e \in GateEnvs : load_suite_config(s, f, e)
    \/ \E s \in DOMAIN config_cache, o \in Overrides : BaseRunner(s, o)
    \/ BasePage
    \/ register_ai_element("search", SEARCH_FIELD, NoLocator)
    \/ \E n \in ElementNames : ResolveOnPage(n)

\* no suite loaded and no page object yet; the driver shows the search page
GateInit ==
    /\ ai_elements = EmptyDict
    /\ page = "search"
    /\ self_healing = TRUE
    /\ base_page = NoPage
    /\ healCalls = 0
    /\ lastFind = NoFind
InitGate == ConfigInit /\ RunIdle /\ GateInit /\ MainIdle /\ PoolIdle
SpecGate == InitGate /\ [][GateNext]_vars

InitConfig == ConfigInit /\ RunIdle /\ PageIdle /\ MainIdle /\ PoolIdle
SpecConfig == InitConfig /\ [][ConfigNext]_vars

(***************************************************************************)
(* Properties of the configuration resolver.                               *)
(***************************************************************************)

LoadDone   == lastOp.op = "load"
LoadOk     == LoadDone /\ lastOp.status = "ok"
LoadedDoc  == lastOp.file.doc

\* the keys an environment variable overrides, and the value it gives
LayerKeys ==
    { <<"ai_settings", "model">>, <<"ai_settings", "visual_threshold">>,
      <<"browser", "default">>, <<"browser", "headless">> }
    \cup {<<"ai_features", f>> : f \in DOMAIN DefaultSections.ai_features}

EnvValue(env, K) ==
    CASE K = <<"ai_settings", "model">> ->
            IF env.GOOGLE_AI_MODEL = "" THEN "unset" ELSE Repr(env.GOOGLE_AI_MODEL)
      [] K = <<"ai_settings", "visual_threshold">> ->
            IF env.VISUAL_THRESHOLD = "" THEN "unset" ELSE FloatRepr(env.VISUAL_THRESHOLD)
      [] K = <<"browser", "default">> ->
            IF env.BROWSER = "" THEN "unset" ELSE Repr(env.BROWSER)
      [] K = <<"browser", "headless">> ->
            IF env.HEADLESS = "" THEN "unset" ELSE BoolRepr(Lower(env.HEADLESS) = "true")
      [] OTHER ->
            IF env.AI_FEATURES_ENABLED = "" THEN "unset"
            ELSE BoolRepr(Lower(env.AI_FEATURES_ENABLED) = "true")

FileValue(doc, K) ==
    IF HasKey(doc, K[1]) /\ Entry(doc, K[1]).map /\ K[2] \in PairKeys(Entry(doc, K[1]).m)
    THEN PairValue(Entry(doc, K[1]).m, K[2])
    ELSE "unset"

DefaultValue(K) == DefaultSections[K[1]][K[2]]

\* the value the three lower layers give K: environment over file over default
LayeredValue(doc, env, K) ==
    IF EnvValue(env, K) # "unset" THEN EnvValue(env, K)
    ELSE IF FileValue(doc, K) # "unset" THEN FileValue(doc, K)
         ELSE DefaultValue(K)

OverrideValue(overrides, K) ==
    IF \E i \in 1..Len(overrides) : overrides[i][1] = K
    THEN overrides[CHOOSE i \in 1..Len(overrides) :
                      /\ overrides[i][1] = K
                      /\ \A j \in (i + 1)..Len(overrides) : overrides[j][1] # K][2]
    ELSE "unset"

\* the file omits the section of K or gives it as a mapping
SectionIsMapping(doc, K) == HasKey(doc, K[1]) => Entry(doc, K[1]).map

LoadLayersHold ==
    LoadOk => \A K \in LayerKeys :
                 SectionIsMapping(LoadedDoc, K) =>
                     Navigate(heap, lastOp.config, K, 1, "absent")
                         = LayeredValue(LoadedDoc, lastOp.env, K)

RunnerLayerHolds ==
    (lastOp'.op = "runner" /\ calls' = calls + 1 /\ lastOp'.status = "ok") =>
        \A K \in LayerKeys :
            Navigate(heap', runner_config', K, 1, "absent")
                = IF OverrideValue(lastOp'.overrides, K) # "unset"
                  THEN OverrideValue(lastOp'.overrides, K)
                  ELSE Navigate(heap, config_cache[lastOp'.suite], K, 1, "absent")

\* C5: the effective value of every key is the runtime-override value; without
\* a runtime override the environment value; without either the suite-file
\* value; otherwise the default.
C5_LayerPrecedence == [][LoadLayersHold' /\ RunnerLayerHolds]_vars

\* what is wrong with a document: the required sections it lacks and the
\* feature flags whose value is no bool
MissingSections(doc) == {sec \in Range(required_sections) : ~HasKey(doc, sec)}
NonBooleanFlags(doc) ==
    IF HasKey(doc, "ai_features") /\ Entry(doc, "ai_features").map
    THEN {f \in PairKeys(Entry(doc, "ai_features").m) :
             ~IsBool(PairValue(Entry(doc, "ai_features").m, f))}
    ELSE {}
LoadedDocument == LoadDone /\ lastOp.file.exists /\ lastOp.file.yaml

\* C6: the validation error of load_suite_config lists every missing required
\* section and every feature flag that is no boolean, in one error.
C6_ValidateAll ==
    (LoadedDocument /\ MissingSections(LoadedDoc) \cup NonBooleanFlags(LoadedDoc) # {}) =>
        /\ lastOp.status = "ConfigurationError"
        /\ MissingSections(LoadedDoc) \cup NonBooleanFlags(LoadedDoc)
               \subseteq Range(lastOp.error.items)

CacheContents(h, cache) == [s \in DOMAIN cache |-> Contents(h, cache[s])]

\* C7: a successful load sets the current-suite pointer and the cache entry of
\* its suite name to the configuration it returns; a load that fails leaves the
\* pointer and the cache, contents included, exactly as they were.
C7_CacheWrittenBySuccessfulLoadsOnly ==
    [][(lastOp'.op = "load" /\ calls' = calls + 1) =>
          IF lastOp'.status = "ok"
          THEN /\ current_suite' = lastOp'.suite
               /\ DOMAIN config_cache' = DOMAIN config_cache \cup {lastOp'.suite}
               /\ config_cache'[lastOp'.suite] = lastOp'.config
               /\ \A s \in DOMAIN config_cache \ {lastOp'.suite} :
                     config_cache'[s] = config_cache[s]
          ELSE /\ current_suite' = current_suite
               /\ config_cache' = config_cache
               /\ CacheContents(heap', config_cache') = CacheContents(heap, config_cache)
      ]_vars

\* C8: every cached configuration has a non-empty suite_info.name, an
\* ai_features mapping of booleans and an ai_settings mapping with a model.
RequiredFields(h, c) ==
    /\ "suite_info" \in DOMAIN h[c] /\ IsDict(h, h[c]["suite_info"])
    /\ "name" \in DOMAIN h[h[c]["suite_info"]] /\ Truthy(h[h[c]["suite_info"]]["name"])
    /\ "ai_features" \in DOMAIN h[c] /\ IsDict(h, h[c]["ai_features"])
    /\ \A f \in DOMAIN h[h[c]["ai_features"]] : IsBool(h[h[c]["ai_features"]][f])
    /\ "ai_settings" \in DOMAIN h[c] /\ IsDict(h, h[c]["ai_settings"])
    /\ "model" \in DOMAIN h[h[c]["ai_settings"]]

\* C8: every configuration in the cache has a non-empty suite_info.name, an
\* ai_features mapping of booleans and an ai_settings mapping with a model.
C8_RequiredFields == \A s \in DOMAIN config_cache : RequiredFields(heap, config_cache[s])

\* the value the cached configuration holds at a path, read off its contents
Stored(h, config, key) ==
    IF \E e \in Flat(h, config, <<>>) : e[1] = key /\ e[2] # "{}"
    THEN (CHOOSE e \in Flat(h, config, <<>>) : e[1] = key /\ e[2] # "{}")[2]
    ELSE IF <<key, "{}">> \in Flat(h, config, <<>>) THEN "dict"
         ELSE "absent"

GetExpected(key, default, suite) ==
    LET s == IF suite = "None" THEN current_suite ELSE suite
    IN  IF s \notin DOMAIN config_cache THEN "raise"
        ELSE LET v == Stored(heap, config_cache[s], key)
             IN  IF v = "absent" THEN default ELSE v

\* C9: get on a loaded suite returns the value stored at the path, or default
\* when a segment is absent or an intermediate value is no mapping, and raises
\* only for a suite never loaded; is_feature_enabled(f) is
\* get('ai_features.' + f, False); after loading a file that sets
\* ai_features.self_healing: false (no AI_FEATURES_ENABLED) both give False.
C9_GetNeverRaisesOnLoadedSuite ==
    /\ lastOp.op = "get" =>
          LET want == GetExpected(lastOp.key, lastOp.default, lastOp.suite)
          IN  IF want = "dict"
              THEN /\ IsDict(heap, lastOp.value)
                   /\ \A e \in Flat(heap, lastOp.value, lastOp.key) :
                         e \in Flat(heap, config_cache[IF lastOp.suite = "None"
                                                       THEN current_suite
                                                       ELSE lastOp.suite], <<>>)
              ELSE lastOp.value = want
    /\ lastOp.op = "is_feature_enabled" =>
          lastOp.value = GetExpected(<<"ai_features", lastOp.feature>>, "False", lastOp.suite)
    /\ (LoadOk /\ FileValue(LoadedDoc, <<"ai_features", "self_healing">>) = "False"
           /\ lastOp.env.AI_FEATURES_ENABLED = "") =>
          /\ Get(heap, config_cache, current_suite,
                 <<"ai_features", "self_healing">>, "None", "None") = "False"
          /\ IsFeatureEnabled(heap, config_cache, current_suite, "self_healing", "None")
                 = "False"

C9_Witness ==
    /\ lastOp.op = "get" /\ lastOp.suite = "None" /\ current_suite # "None"
    /\ lastOp.key = <<"ai_settings", "model", "name">>
    /\ lastOp.default = "'dflt'" /\ lastOp.value = "'dflt'"

(***************************************************************************)
(* Properties of BaseRunner.run.                                           *)
(***************************************************************************)
Phases == <<"generation", "execution", "analysis", "reporting">>
PhaseIndex(p) == CHOOSE i \in 1..Len(Phases) : Phases[i] = p
LaterPhases(p) == {Phases[i] : i \in (PhaseIndex(p) + 1)..Len(Phases)}
Failed(p) == p \in DOMAIN result /\ ~result[p].success

\* the run ended when phase p failed: nothing later was invoked or is in the
\* returned result, and the returned success flag is false
StoppedAt(p) ==
    /\ pc = "Done" /\ returned.done /\ ~returned.success
    /\ \A q \in LaterPhases(p) : q \notin Range(invoked) /\ q \notin DOMAIN returned.entries

\* C1: if the generation phase or the execution phase reports failure (an
\* execution timeout included), no later phase is invoked, the returned result
\* has no entry of a later phase, and the returned success flag is false.
C1_RequiredPhaseFailureStopsRun ==
    \A p \in {"generation", "execution"} : Failed(p) => StoppedAt(p)

C1_Witness ==
    /\ mode = "full" /\ pc = "Done"
    /\ Failed("execution") /\ result["execution"].error = "Execution timeout"
    /\ DOMAIN returned.entries = {"generation", "execution"}

\* C2 as stated: whichever phase reports failure, the run goes directly to
\* Done, no later phase is invoked and the returned success flag is false.
C2_AnyPhaseFailureStopsRun ==
    \A p \in Range(Phases) : Failed(p) => StoppedAt(p)

\* C2 as the code has it: only a failure of generation or execution ends the
\* run with success false; after a failed analysis the reporting phase is still
\* invoked, and a run whose analysis or reporting failed returns success true.
C2_OnlyRequiredPhaseFailureStopsRun ==
    /\ Failed("generation") => StoppedAt("generation")
    /\ Failed("execution") => StoppedAt("execution")
    /\ Failed("analysis") =>
          \/ pc = "Reporting"
          \/ pc = "Done" /\ "reporting" \in Range(invoked) /\ returned.success
    /\ Failed("reporting") => pc = "Done" /\ returned.done /\ returned.success

C2_Witness ==
    /\ pc = "Done" /\ returned.success
    /\ Failed("analysis") /\ Failed("reporting")
    /\ invoked = <<"execution", "analysis", "reporting">>

\* C3: run never raises: an unexpected error raised inside a phase becomes
\* that phase's result with success false and an error message, run returns a
\* result holding it, and the returned success flag is false when the phase
\* is generation or execution.
C3_RunNeverRaises ==
    /\ pc = "Done" => returned.done
    /\ \A p \in raisedIn :
          /\ Failed(p) /\ result[p].error # ""
          /\ pc = "Done" =>
                /\ p \in DOMAIN returned.entries /\ returned.entries[p] = result[p]
                /\ p \in {"generation", "execution"} => ~returned.success

C3_Witness ==
    /\ pc = "Done" /\ mode = "run" /\ returned.done /\ ~returned.success
    /\ raisedIn = {"execution"} /\ returned.entries["execution"].error = "subprocess error"

\* does the generation of format y itself work, and the path it lists
FormatWorks(y) ==
    CASE y = "html"   -> reporting.html = "ok"
      [] y = "allure" -> reporting.allure_dir /\ reporting.allure = "ok"
      [] OTHER        -> reporting.json = "ok"
ReportPath(y) ==
    CASE y = "html"   -> "test_report.html"
      [] y = "allure" -> "allure_report"
      [] OTHER        -> "test_results.json"

\* C4: report formats are independent: once the reports directory exists, every
\* requested format whose own generation works is listed in generated_reports,
\* whichever other requested format fails.
C4_ReportFormatsIndependent ==
    ("reporting" \in DOMAIN result /\ reporting.mkdir = "ok") =>
        \A y \in report_formats :
            FormatWorks(y) => ReportPath(y) \in Range(result["reporting"].generated_reports)

(***************************************************************************)
(* Properties of BasePage.                                                 *)
(***************************************************************************)
\* the last call of find_element_ai was for a registered element whose primary
\* locator query found an element
PrimaryQuery ==
    find_element(Pages[lastFind.page], lastFind.info.primary_locator[1],
                 lastFind.info.primary_locator[2])
PrimarySucceeded ==
    /\ lastFind.info # Unregistered
    /\ lastFind.info.primary_locator # NoLocator
    /\ PrimaryQuery # "raise"

\* C10: for a registered element whose primary locator query succeeds,
\* find_element_ai returns the element the primary locator found and does not
\* invoke _heal_element, whatever the description matches on the page and
\* whatever the self_healing flag is.
C10_PrimaryLocatorFirst ==
    PrimarySucceeded => ~lastFind.healed /\ lastFind.value = PrimaryQuery

C10_Witness ==
    /\ PrimarySucceeded /\ lastFind.gate /\ lastFind.value = "e1"
    /\ heal_element(Pages[lastFind.page], lastFind.info) = "e2"

Called == lastFind.op # "none"
Registered == lastFind.info # Unregistered

\* C11: when the self_healing flag is false and the primary locator is absent
\* or its query fails, find_element_ai gives None and _heal_element (any scan
\* of buttons or inputs) is not invoked.
C11_SelfHealingGate ==
    (Called /\ ~lastFind.gate /\ ~PrimarySucceeded) =>
        lastFind.value = "None" /\ ~lastFind.healed

C11_Witness ==
    /\ lastFind.op = "find" /\ ~lastFind.gate /\ Registered
    /\ lastFind.primary = "raise" /\ lastFind.value = "None"
    /\ heal_element(Pages[lastFind.page], lastFind.info) = "e5"

\* C12: resolving a name without descriptor fails with an UnregisteredElement
\* error, an outcome distinct from the not-found result (None) of a failed
\* lookup, without any page query or heuristic attempt.
C12_UnregisteredIsAnError ==
    (lastFind.op = "find" /\ ~Registered) =>
        /\ lastFind.returned # "None"
        /\ lastFind.primary = "None" /\ ~lastFind.healed

\* the attempts of a call that the healing history is to record
Attempts(call) ==
    (IF call.primary = "raise" THEN 1 ELSE 0) + (IF call.healed THEN 1 ELSE 0)

\* C13: each failed primary-locator lookup and each heuristic attempt appends
\* one entry to the element's healing_history.
C13_HealingHistoryGrows ==
    [][(lastFind' # lastFind /\ lastFind'.name \in DOMAIN ai_elements) =>
          Len(ai_elements'[lastFind'.name].healing_history) =
             Len(ai_elements[lastFind'.name].healing_history) + Attempts(lastFind')]_vars

\* C14: find_element_ai, is_element_visible_ai, click_ai_element and
\* type_ai_element return a value and never raise, whatever the driver does;
\* click and type return True exactly when the element was resolved and the
\* interaction ended without error; a call resolves (and heals) at most once.
Returns(call) ==
    /\ call.returned # "raise"
    /\ call.op = "find" => call.returned = call.value
    /\ call.op \in {"click", "type"} =>
          /\ call.returned \in {"True", "False"}
          /\ call.returned = "True" <=> (call.value # "None" /\ call.act = "ok")
    /\ call.op = "visible" =>
          /\ call.returned \in {"True", "False"}
          /\ call.returned = "True" <=> (call.value # "None" /\ call.act = "True")

C14_NothingRaisedPastTheRegistry ==
    [][Returns(lastFind') /\ healCalls' \in {healCalls, healCalls + 1}]_vars

C14_Witness ==
    /\ lastFind.op = "click" /\ lastFind.value = "e3" /\ lastFind.healed
    /\ lastFind.act = "raise" /\ lastFind.returned = "False"

(***************************************************************************)
(* Properties of _deep_merge.                                              *)
(***************************************************************************)
\* C15: merging the override onto the result of merging it onto the base
\* gives the same configuration as merging it once.
C15_MergeIdempotent ==
    (lastOp.op = "merge" /\ lastOp.twice # "None") =>
        Contents(heap, lastOp.twice) = Contents(heap, lastOp.once)

C15_Witness ==
    /\ lastOp.op = "merge" /\ lastOp.twice # "None"
    /\ <<<<"a", "k">>, "[2]">> \in Contents(heap, lastOp.base)
    /\ <<<<"a", "k">>, "1">> \in Contents(heap, lastOp.override)
    /\ <<<<"a", "m">>, "[2]">> \in Contents(heap, lastOp.base)
    /\ <<<<"a", "m">>, "[2]">> \in Contents(heap, lastOp.override)
    /\ <<<<"b">>, "{}">> \in Contents(heap, lastOp.base)
    /\ <<<<"b">>, "[2]">> \in Contents(heap, lastOp.twice)

(***************************************************************************)
(* Properties of the entry point run_tests.py.                             *)
(***************************************************************************)
Exited == exit_code.exited
OnlyListing == mainPc = "listed"
RunSucceeded == mainPc = "returned" /\ returned.success

\* C16: the process exits with 0 exactly when the run result's success flag
\* is true or the suites were only listed; with 1 when the suite is missing
\* or invalid, when loading fails, or when the success flag is false; with
\* 130 when the user interrupts loading or running; with no other status.
C16_ExitCodes ==
    Exited =>
        /\ exit_code.status \in {0, 1, 130}
        /\ (exit_code.status = 0) <=> (OnlyListing \/ RunSucceeded)
        /\ mainPc \in {"no suite", "invalid suite", "load failed"} => exit_code.status = 1
        /\ (mainPc = "returned" /\ ~returned.success) => exit_code.status = 1
        /\ mainPc = "interrupted" => exit_code.status = 130

(***************************************************************************)
(* Properties of TestRunner.run_tests.                                     *)
(***************************************************************************)
Summarised == test_results.run_mode # "None"
\* the results the files yielded, in the order of test_files
RECURSIVE InFileOrder(_)
InFileOrder(i) ==
    IF i > Len(futures) THEN <<>>
    ELSE (IF futures[i].state = "done" THEN <<futures[i].result>> ELSE <<>>)
         \o InFileOrder(i + 1)
Sequential == Summary(InFileOrder(1), "sequential")

\* C17: whatever the completion order, the summary counts are those of a
\* sequential run in which each file yields the same result, total is
\* passed + failed + skipped, and the result of every file whose worker
\* did not raise is collected.
C17_CountsIndependentOfCompletionOrder ==
    Summarised =>
        /\ test_results.passed = Sequential.passed
        /\ test_results.failed = Sequential.failed
        /\ test_results.skipped = Sequential.skipped
        /\ test_results.total =
               test_results.passed + test_results.failed + test_results.skipped
        /\ \A i \in DOMAIN futures :
               futures[i].state = "done" =>
                   \E k \in DOMAIN all_results : all_results[k] = futures[i].result

\* a parallel run of three files, collected out of submission order after
\* one worker raised, with tests counted
C17_Witness ==
    /\ Summarised /\ parallel /\ Len(test_files) = 3
    /\ futures[1].state = "error"
    /\ Len(all_results) = 2
    /\ all_results[1].file = test_files[3].name
    /\ all_results[2].file = test_files[2].name
    /\ test_results.total > 0

\* C18: in a parallel run, the entries of a file's result come from that
\* file's own pytest process, never from another worker's.
C18_ResultFromOwnProcess ==
    (parallel /\ Len(test_files) > 1) =>
        \A i \in DOMAIN futures :
            futures[i].state = "done" =>
                \A k \in DOMAIN futures[i].result.tests :
                    futures[i].result.tests[k].details = test_files[i].name

(***************************************************************************)
(* Properties of the global feature override.                              *)
(***************************************************************************)
\* the feature flags of the configuration the last load returned, and the
\* flags its suite file declares
LoadedFlags == heap[heap[lastOp.config]["ai_features"]]
FileFlags == PairKeys(Entry(LoadedDoc, "ai_features").m)
\* os.getenv("AI_FEATURES_ENABLED") during the last load; "" when it is not set
FeaturesEnabledVar == lastOp.env.AI_FEATURES_ENABLED

\* C19: after a load with AI_FEATURES_ENABLED set, every flag of the
\* configuration (the four default flags and the flags only the suite file
\* declares) is true iff the lower-cased value is 'true'; after a load
\* without it, every flag has the suite file's value, or the default when
\* the file omits the flag.
C19_GlobalFeatureOverride ==
    LoadOk =>
        /\ DOMAIN LoadedFlags = DOMAIN DefaultSections.ai_features \cup FileFlags
        /\ \A f \in DOMAIN LoadedFlags :
               LoadedFlags[f] =
                   IF FeaturesEnabledVar # ""
                   THEN BoolRepr(Lower(FeaturesEnabledVar) = "true")
                   ELSE IF f \in FileFlags
                        THEN PairValue(Entry(LoadedDoc, "ai_features").m, f)
                        ELSE DefaultSections.ai_features[f]

\* a load under AI_FEATURES_ENABLED=true of a file that alone declares
\* smart_wait, as False
C19_Witness ==
    /\ LoadOk
    /\ FeaturesEnabledVar = "true"
    /\ "smart_wait" \in FileFlags
    /\ PairValue(Entry(LoadedDoc, "ai_features").m, "smart_wait") = "False"
    /\ LoadedFlags["smart_wait"] = "True"
    /\ LoadedFlags["test_analysis"] = "True"

(***************************************************************************)
(* Properties of the feature-gated phases.                                 *)
(***************************************************************************)
GatedPhases == {"generation", "analysis"}
PhaseFlag(phase) == IF phase = "generation" THEN gen_enabled ELSE ana_enabled

\* C20: a generation or analysis phase that has run called its collaborator
\* iff the flag of the phase is true; with the flag false it returned a
\* successful result and wrote nothing.
C20_FeatureGatedPhases ==
    \A phase \in GatedPhases \cap DOMAIN result :
        /\ result[phase].delegated <=> PhaseFlag(phase)
        /\ ~PhaseFlag(phase) => (result[phase].success /\ result[phase].artifacts = {})

(***************************************************************************)
(* Properties of the order of the phases of BaseRunner.run.                *)
(***************************************************************************)
\* the phases invoked so far are in the order of Phases, each at most once
InPhaseOrder ==
    \A i, j \in DOMAIN invoked : i < j => PhaseIndex(invoked[i]) < PhaseIndex(invoked[j])
\* analysis follows a successful execution phase, reporting a returned analysis
PrerequisitesMet ==
    /\ "analysis" \in Range(invoked) =>
           "execution" \in DOMAIN result /\ result["execution"].success
    /\ "reporting" \in Range(invoked) => "analysis" \in DOMAIN result

\* C21: each phase is invoked at most once and only in the order generation,
\* execution, analysis, reporting; analysis only after a successful
\* execution, reporting only after analysis has returned; and every run
\* reaches Done, returning a result.
C21_PhaseOrderAndTermination ==
    /\ [](InPhaseOrder /\ PrerequisitesMet)
    /\ <>(pc = "Done" /\ returned.done)

C21_Witness ==
    /\ pc = "Done" /\ returned.done
    /\ invoked = <<"generation", "execution", "analysis", "reporting">>

\* C22: a run in which no phase reports failure has, in every mode, invoked
\* the analysis phase and then the reporting phase when it is Done.
C22_AnalysisAndReportingInEveryMode ==
    (pc = "Done" /\ \A p \in Range(Phases) : ~Failed(p)) =>
        \E i, j \in DOMAIN invoked :
            i < j /\ invoked[i] = "analysis" /\ invoked[j] = "reporting"

(***************************************************************************)
(* Properties of the healing heuristic.                                    *)
(***************************************************************************)
\* the two-way choice: the button scan if the description contains "button",
\* else the input scan if it contains "input" or "field"; one scan at most
ExclusiveChoice(dom, element_info) ==
    LET description == str_lower(element_info.description)
    IN  IF Within(BUTTON, description)
        THEN FirstMatch(dom, "button", "text", description)
        ELSE IF Within(INPUT, description) \/ Within(FIELD, description)
             THEN FirstMatch(dom, "input", "placeholder", description)
             ELSE "None"

\* C23: a call that reaches the heuristic gives what the scan selected by the
\* description finds, and None when that scan finds no match: a description
\* with "button" and "field" and no matching button never gives an input.
C23_HealingIsExclusiveChoice ==
    (Called /\ lastFind.healed) =>
        lastFind.value = ExclusiveChoice(Pages[lastFind.page], lastFind.info)

(***************************************************************************)
(* Runtime overrides (BaseRunner._apply_runtime_overrides).                *)
(***************************************************************************)

IsPrefix(p, q) == Len(p) <= Len(q) /\ SubSeq(q, 1, Len(p)) = p

PrefixRelated(p, q) == IsPrefix(p, q) \/ IsPrefix(q, p)

OverridePaths(overrides) == {overrides[i][1] : i \in DOMAIN overrides}

\* the leaves of a configuration that lie under none of the override paths
LeavesOutside(h, config, overrides) ==
    {leaf \in Contents(h, config) :
        \A p \in OverridePaths(overrides) : ~PrefixRelated(p, leaf[1])}

\* C24: applying runtime overrides never raises, whatever the override
\* paths run through; afterwards every override path that is not
\* prefix-related to another override path holds its override value, and
\* every leaf of the configuration outside the override paths is as before.
C24_RuntimeOverridesAlwaysSucceed ==
    [][(calls' = calls + 1 /\ lastOp'.op = "runner") =>
          /\ lastOp'.status = "ok"
          /\ \A i \in DOMAIN lastOp'.overrides :
                (\A j \in DOMAIN lastOp'.overrides :
                    j # i => ~PrefixRelated(lastOp'.overrides[i][1], lastOp'.overrides[j][1]))
                => Navigate(heap', runner_config', lastOp'.overrides[i][1], 1, "absent")
                       = lastOp'.overrides[i][2]
          /\ LeavesOutside(heap, config_cache[lastOp'.suite], lastOp'.overrides)
                 \subseteq Contents(heap', runner_config')]_vars

(***************************************************************************)
(* The registry of a page object.                                          *)
(***************************************************************************)

Descriptor(r) ==
    [description |-> r[1], primary_locator |-> r[2], healing_history |-> <<>>]

\* the registry after name has been registered with r, whatever it held
Overwritten(registry, name, r) ==
    [n \in DOMAIN registry \cup {name} |->
        IF n = name THEN Descriptor(r) ELSE registry[n]]

\* C25: registration is last-write-wins and touches no other name.  In every
\* state every registration of every name can be made and leaves the registry
\* with that name bound to the new description and primary locator, with an
\* empty healing history, and every other name as it was; the registry changes
\* in no other way, so resolve, click, type and isVisible leave it alone.
C25_RegistrationLastWriteWins ==
    /\ [](\A name \in ElementNames : \A r \in Registrations[name] :
            ENABLED (PageNext /\ ai_elements' = Overwritten(ai_elements, name, r)
                              /\ lastFind' = lastFind))
    /\ [][/\ ai_elements' # ai_elements =>
                \E name \in ElementNames : \E r \in Registrations[name] :
                    ai_elements' = Overwritten(ai_elements, name, r)
          /\ lastFind' # lastFind => ai_elements' = ai_elements]_vars

\* two names registered, one of them holding the second of its registrations
C25_Witness ==
    /\ {"login", "search"} \subseteq DOMAIN ai_elements
    /\ ai_elements["login"] = Descriptor(<<CANCEL_BUTTON, <<"id", "login-btn">> >>)
    /\ ai_elements["search"] = Descriptor(<<SEARCH_FIELD, NoLocator>>)
    /\ lastFind.op = "find" /\ lastFind.name = "login"
    /\ lastFind.info.description = LOGIN_BUTTON

(***************************************************************************)
(* Aliasing between the defaults, the cache and the runner's copy.         *)
(***************************************************************************)

\* C26: AIConfig._defaults is fixed: after any loads (any documents, any
\* environment) and any runner constructions with runtime overrides, the
\* default structure has its initial contents at every level.
C26_DefaultsAreFixed ==
    Contents(heap, DefaultsAddr) = Contents(InitialHeap, DefaultsAddr)

\* C27: constructing a BaseRunner leaves the configuration it was given, and
\* with it every cache entry, with the contents it had, at every level; the
\* overrides show in the runner's own copy only.
C27_RunnerConstructionKeepsOriginal ==
    [][(calls' = calls + 1 /\ lastOp'.op = "runner") =>
          CacheContents(heap', config_cache') = CacheContents(heap, config_cache)]_vars

(***************************************************************************)
(* Isolation of phase failures.                                            *)
(***************************************************************************)

ExecutionSucceeded == "execution" \in DOMAIN result /\ result["execution"].success

\* C28: after a successful execution a failed analysis does not keep the
\* reporting phase from being invoked; a failed generation keeps execution
\* from being invoked in mode full only: mode generate has no execution
\* whatever generation gave, and mode run has no generation.
C28_PhaseFailuresIsolated ==
    /\ (ExecutionSucceeded /\ Failed("analysis")) =>
          pc = "Reporting" \/ "reporting" \in Range(invoked)
    /\ (mode = "full" /\ pc = "Done") =>
          ("execution" \in Range(invoked) <=> ~Failed("generation"))
    /\ mode = "generate" => "execution" \notin Range(invoked)
    /\ mode = "run" =>
          /\ "generation" \notin Range(invoked)
          /\ pc = "Done" => "execution" \in Range(invoked)

C28_Witness ==
    /\ mode = "full" /\ pc = "Done" /\ returned.done
    /\ ExecutionSucceeded /\ Failed("analysis") /\ ~Failed("reporting")
    /\ invoked = <<"generation", "execution", "analysis", "reporting">>

(***************************************************************************)
(* The merge rule.                                                         *)
(***************************************************************************)

\* merged, in heap h, is what the rule gives for base and override, in heap h0
RECURSIVE MergeRule(_, _, _, _, _)
MergeRule(h, merged, h0, base, override) ==
    /\ IsDict(h, merged)
    /\ DOMAIN h[merged] = DOMAIN h0[base] \cup DOMAIN h0[override]
    /\ \A key \in DOMAIN h[merged] :
          IF key \in DOMAIN h0[base] /\ key \in DOMAIN h0[override]
             /\ IsDict(h0, h0[base][key]) /\ IsDict(h0, h0[override][key])
          THEN MergeRule(h, h[merged][key], h0, h0[base][key], h0[override][key])
          ELSE IF key \in DOMAIN h0[override]
               THEN Contents(h, h[merged][key]) = Contents(h0, h0[override][key])
               ELSE Contents(h, h[merged][key]) = Contents(h0, h0[base][key])

\* a call of _deep_merge(base, override) that returns merged
MergeStepHolds(h, merged, h0, base, override) ==
    /\ MergeRule(h, merged, h0, base, override)
    /\ h[base] = h0[base]
    /\ h[override] = h0[override]

\* C29: the result of _deep_merge has the keys of base and of override; where
\* both values are mappings it holds their merge by the same rule; any other
\* key of override holds the override value outright, whether mapping, list
\* or number; a key of base alone holds the base value; and the top-level
\* mappings of base and override are as they were.
C29_DeepMergeRule ==
    [][/\ (lastOp.op = "merge" /\ lastOp.once = "None" /\ lastOp'.once # "None") =>
             MergeStepHolds(heap', lastOp'.once, heap, lastOp.base, lastOp.override)
       /\ (lastOp.op = "merge" /\ lastOp.once # "None" /\ lastOp.twice = "None"
                               /\ lastOp'.twice # "None") =>
             MergeStepHolds(heap', lastOp'.twice, heap, lastOp.once, lastOp.override)]_vars

\* one merge made: a.k of base kept beside a.m of override, and the mapping b
\* of base replaced by the list of override
C29_Witness ==
    /\ lastOp.op = "merge" /\ lastOp.once # "None" /\ lastOp.twice = "None"
    /\ <<<<"a", "k">>, "1">> \in Contents(heap, lastOp.base)
    /\ <<<<"a", "m">>, "[2]">> \in Contents(heap, lastOp.override)
    /\ <<<<"a", "k">>, "1">> \in Contents(heap, lastOp.once)
    /\ <<<<"a", "m">>, "[2]">> \in Contents(heap, lastOp.once)
    /\ <<<<"b", "k">>, "1">> \in Contents(heap, lastOp.base)
    /\ <<<<"b">>, "[2]">> \in Contents(heap, lastOp.once)
    /\ heap[lastOp.once]["a"] \notin {heap[lastOp.base]["a"], heap[lastOp.override]["a"]}

(***************************************************************************)
(* The self-healing gate and the current suite.                            *)
(***************************************************************************)

\* the self_healing flag in the cached configuration of the current suite
CurrentSuiteFlag ==
    Navigate(heap, config_cache[current_suite], <<"ai_features", "self_healing">>, 1, "False")

AsksGate(find) ==
    find.op = "find" /\ find.info # Unregistered /\ find.primary \in {"None", "raise"}

\* C30: each find_element_ai on a page object is gated by the self_healing
\* flag of the suite that is current at the call, whichever suite was current
\* when the page object was built; and once a page object is built a suite is
\* current and cached, so that the lookup never fails with suite-not-loaded.
C30_GateFollowsCurrentSuite ==
    /\ [](base_page.constructed =>
             /\ current_suite \in DOMAIN config_cache
             /\ heap[config_cache[current_suite]] # EmptyDict
             /\ lastFind.returned # "raise")
    /\ [][(lastFind' # lastFind /\ AsksGate(lastFind')) =>
             /\ lastFind'.gate = Truthy(CurrentSuiteFlag)
             /\ lastFind'.healed = lastFind'.gate]_vars

\* the page object was built under shop, whose flag is on; blog was loaded
\* later with the flag off, and the find that followed did not heal
C30_Witness ==
    /\ base_page.constructed /\ base_page.suite = "shop" /\ current_suite = "blog"
    /\ Navigate(heap, config_cache["shop"], <<"ai_features", "self_healing">>, 1, "False")
           = "True"
    /\ CurrentSuiteFlag = "False"
    /\ AsksGate(lastFind) /\ ~lastFind.gate /\ lastFind.value = "None"
    /\ heal_element(Pages[page], lastFind.info) # "None"

====
